---- MODULE Spec2Model ----
(***************************************************************************)
(* Ticket bot (src/main.py, src/database.py, src/migrate.py).              *)
(*                                                                         *)
(* The bot runs on one asyncio event loop: a callback runs without         *)
(* interruption from one `await` to the next, and at every `await` any     *)
(* other callback may run.  Each action below is one such uninterrupted    *)
(* stretch of one callback.  A callback that is suspended at an `await`    *)
(* is a record in the bag `tasks`; its field pc names the await it is      *)
(* suspended at, the other fields are its local variables.                 *)
(***************************************************************************)
EXTENDS Integers, Sequences, FiniteSets, Bags, TLC

\* ------------------------------------------------------------------ bounds
MaxInFlight == 2   \* callbacks suspended at an await at the same time
MaxSlots    == 2   \* largest slot capacity a session is created with
MaxFails    == 1   \* I/O calls that raise in one behaviour
MaxCalls    == 3   \* calls of get_next_ticket_number in one behaviour
MaxClicks   == 3   \* button presses, modal submits and commands in one behaviour

\* ------------------------------------------------------- the guild's world
Users      == {"A", "B", "C"}
HelperRole == "helper_role"
AdminRole  == "admin_role"
BlockedRole == "blocked_role"
RoleIds    == {HelperRole, AdminRole, BlockedRole}
NoId       == "none"            \* a NULL column / Python None
TranscriptChannel == "transcript_channel"
TicketCategory    == "ticket_category"   \* the category channel tickets are created in
ChannelIds == {TranscriptChannel, TicketCategory}
Sessions   == {1, 2}            \* the ActiveTicketView objects
GuildIds   == {"g1", "g2"}      \* the guilds the bot serves
ThisGuild  == "g1"              \* the guild of the sessions
OtherGuild == "g2"

\* roles each member holds on the platform (a deleted role is held by nobody)
MemberRoles ==
  [u \in Users |-> CASE u = "A" -> {HelperRole}
                     [] u = "B" -> {HelperRole, AdminRole}
                     [] OTHER   -> {BlockedRole}]

DEFAULT_POINT_VALUES ==
  [c \in {"Ultra Speaker Express", "Ultra Gramiel Express",
          "4-Man Ultra Daily Express", "7-Man Ultra Daily Express",
          "Ultra Weekly Express", "Grim Express", "Daily Temple Express"} |->
     CASE c = "Ultra Speaker Express"     -> 8
       [] c = "Ultra Gramiel Express"     -> 7
       [] c = "4-Man Ultra Daily Express" -> 4
       [] c = "7-Man Ultra Daily Express" -> 7
       [] c = "Ultra Weekly Express"      -> 12
       [] c = "Grim Express"              -> 10
       [] OTHER                           -> 6]

DEFAULT_HELPER_SLOTS ==
  [c \in {"7-Man Ultra Daily Express", "Grim Express"} |-> 6]

DEFAULT_SLOTS == 3

EmptyDict == [c \in {} |-> 0]

\* the categories the modelled sessions are opened for
SessionCategories == {"Grim Express"}

NoConfig == [present |-> FALSE, helper_role_id |-> NoId,
             transcript_channel_id |-> NoId, blocked_role_id |-> NoId,
             ticket_category_id |-> NoId]

\* rows of a guild whose setup stored a ticket category and no blocked role
ConfigRows ==
  [present : {TRUE}, helper_role_id : {NoId, HelperRole},
   transcript_channel_id : {NoId, TranscriptChannel},
   blocked_role_id : {NoId}, ticket_category_id : {TicketCategory}]

NoResp == [s |-> 0, to |-> NoId, kind |-> NoId, outcome |-> NoId, tgt |-> NoId,
           total |-> 0]

VARIABLES
  helpers,         \* [Sessions -> Seq(Users)]   ActiveTicketView.helpers
  slots,           \* [Sessions -> Nat]          ActiveTicketView.slots
  category,        \* [Sessions -> category]     ActiveTicketView.category
  chan,            \* [Sessions -> "none" | "open" | "deleted"] backing channel
  display,         \* [Sessions -> Seq] slot lines of the ticket message's "Helpers" field
  owner,           \* [Sessions -> Users | NoId]  ActiveTicketView.owner
  reward,          \* [Sessions -> Nat] "Points Reward" field of the ticket message
  messages,        \* [Sessions -> Nat] number of messages in the backing channel
  chanName,        \* [Sessions -> category | NoId] category prefix of the channel's name
  command_locks,   \* names of the commands whose lock is held (command_locks[name] is True)
  legacy_points,   \* dict legacy_points: str(user id) -> points, one for all guilds
  events,          \* what has happened without a response: dropped or raising invocations
  tasks,           \* bag of suspended callbacks
  config,          \* the guild's row of table server_configs, or NoConfig
  point_values,    \* the guild's rows of table point_values (a dict)
  helper_slots,    \* the guild's rows of table helper_slots (a dict)
  custom_rules,    \* rule types that have a row in table custom_rules
  admin_roles,     \* the guild's rows of table admin_roles
  guildRoles,      \* roles that exist on the platform (guild.get_role resolves)
  guildChannels,   \* channels that exist on the platform (guild.get_channel resolves)
  user_points,     \* [GuildIds -> [Users -> Nat]]  table user_points (no row reads as 0)
  ticket_numbers,  \* [GuildIds -> [category -> Nat]] table ticket_numbers (no row reads as 0)
  calls,           \* bag of suspended get_next_ticket_number calls
  returned,        \* sequence of [cat, num] returned by get_next_ticket_number
  resp,            \* the response the last step sent to its actor, or NoResp
  transcripts,     \* [Sessions -> Seq(roster)] transcripts delivered, by header
  net,             \* [Sessions -> Int] joins answered accepted - leaves answered accepted
  credits,         \* [Sessions -> [Users -> Nat]] awards written for the session
  closeRoster,     \* [Sessions -> <<roster>> or <<>>] roster when close was first accepted
  fails,           \* number of I/O calls that raised so far
  clicks           \* number of button presses so far

sessionVars == <<helpers, slots, category, chan, display, owner, reward,
                 messages, chanName>>
dbVars      == <<config, point_values, helper_slots, custom_rules, admin_roles,
                 user_points>>
counterVars == <<ticket_numbers, calls, returned>>
ghostVars   == <<transcripts, net, credits, closeRoster, fails>>
\* The platform delivers a button press, a modal submit or a command.
Press == clicks < MaxClicks /\ clicks' = clicks + 1
vars == <<helpers, slots, category, chan, display, owner, reward, messages,
          chanName, command_locks, legacy_points, events, tasks, config,
          point_values, helper_slots, custom_rules, admin_roles, guildRoles,
          guildChannels, user_points,
          ticket_numbers, calls, returned, resp, transcripts, net, credits,
          closeRoster, fails, clicks>>

\* ------------------------------------------------------------ pure helpers
Range(f) == {f[x] : x \in DOMAIN f}

\* list.pop() in its place: drops the last element whatever x is
ListRemoveLast(seq, x) ==
  IF seq = <<>> THEN <<>> ELSE SubSeq(seq, 1, Len(seq) - 1)

\* list.remove(x): drops the first occurrence of x
RECURSIVE ListRemove(_, _)
ListRemove(seq, x) ==
  IF seq = <<>> THEN <<>>
  ELSE IF Head(seq) = x THEN Tail(seq)
  ELSE <<Head(seq)>> \o ListRemove(Tail(seq), x)

\* The "Helpers" field of the embed: line i is "i. [Empty]" or "i. <mention>".
Empty == "[Empty]"

\* `"\n".join([f"{i+1}. [Empty]" for i in range(slots)])`
EmptyLines(n) == [i \in 1..n |-> Empty]

\* the first line that holds x is rewritten to y, the other lines stay
RECURSIVE ReplaceFirst(_, _, _)
ReplaceFirst(lines, x, y) ==
  IF lines = <<>> THEN <<>>
  ELSE IF Head(lines) = x THEN <<y>> \o Tail(lines)
  ELSE <<Head(lines)>> \o ReplaceFirst(Tail(lines), x, y)

\* dict.get(key, default)
DictGet(d, k, default) == IF k \in DOMAIN d THEN d[k] ELSE default

\* main.get_point_values: the stored catalog, or the built-in one when empty
get_point_values == IF DOMAIN point_values # {} THEN point_values
                    ELSE DEFAULT_POINT_VALUES

\* the fallback left out: the stored catalog as it is
get_helper_slotsStored == helper_slots

\* main.get_helper_slots: the stored catalog, or the built-in one when empty
get_helper_slots == IF DOMAIN helper_slots # {} THEN helper_slots
                    ELSE DEFAULT_HELPER_SLOTS

\* interaction.user.roles: the roles the member holds that still exist
UserRoles(u) == MemberRoles[u] \cap guildRoles

\* the admin test left out
IsAdminAnyone(u) == TRUE

\* the admin test turned around
IsAdminInverted(u) == UserRoles(u) \cap admin_roles = {}

\* any(r.id in admin_roles for r in interaction.user.roles)
IsAdmin(u) == UserRoles(u) \cap admin_roles # {}

\* A task record; every task kind uses the same fields.
Task(kind, s, actor, pc) ==
  [kind |-> kind, s |-> s, actor |-> actor, pc |-> pc,
   tgt |-> NoId, i |-> 0, cur |-> 0, pts |-> 0, hdr |-> <<>>, emb |-> <<>>,
   g |-> ThisGuild, amount |-> 0, before |-> 0]

InFlight == BagCardinality(tasks)
Spawn(t)      == tasks (+) SetToBag({t})
Finish(t)     == tasks (-) SetToBag({t})
Replace(t, u) == (tasks (-) SetToBag({t})) (+) SetToBag({u})

Resp(s, to, kind, outcome) ==
  [s |-> s, to |-> to, kind |-> kind, outcome |-> outcome, tgt |-> NoId,
   total |-> 0]

\* a response that names a member other than the actor
RespAbout(s, to, kind, outcome, tgt) ==
  [s |-> s, to |-> to, kind |-> kind, outcome |-> outcome, tgt |-> tgt,
   total |-> 0]

\* main.get_server_config: reads the row; when there is none it runs
\* DataMigrator.set_default_configuration (which stores the default catalog
\* and the default helper rules, but no server_configs row) and reads again.
GetServerConfigEffect ==
  IF config.present
  THEN UNCHANGED <<point_values, helper_slots, custom_rules>>
  ELSE /\ point_values' = DEFAULT_POINT_VALUES
       /\ helper_slots' = DEFAULT_HELPER_SLOTS
       /\ custom_rules' = custom_rules \cup {"helper_rules"}


\* ------------------------------------------------- JoinButton.callback
\* the membership check left out
JoinRejectDupSkipped(s, a) == FALSE

\* `if interaction.user in self.ticket_view.helpers`
JoinRejectDup(s, a) == a \in Range(helpers[s])

\* the capacity looked up in the catalog at the press instead of
\* `self.ticket_view.slots`
JoinRejectFullLive(s) ==
  Len(helpers[s]) >= DictGet(get_helper_slots, category[s], DEFAULT_SLOTS)

\* `if len(self.ticket_view.helpers) >= self.ticket_view.slots`
JoinRejectFull(s) == Len(helpers[s]) >= slots[s]

\* the role test turned around: `helper_role in interaction.user.roles`
JoinRejectRoleInverted(a) ==
  /\ config.present
  /\ config.helper_role_id # NoId
  /\ config.helper_role_id \in guildRoles
  /\ config.helper_role_id \in UserRoles(a)

\* `if helper_role_id: helper_role = guild.get_role(helper_role_id);
\*  if helper_role and helper_role not in interaction.user.roles`
\* (config is None when the guild has no server_configs row)
JoinRejectRole(a) ==
  /\ config.present
  /\ config.helper_role_id # NoId
  /\ config.helper_role_id \in guildRoles
  /\ config.helper_role_id \notin UserRoles(a)

\* An I/O call of a suspended callback may raise; a call on a channel that
\* has been deleted always raises.
Raise(forced) ==
  IF forced THEN fails' = fails
  ELSE fails < MaxFails /\ fails' = fails + 1

\* The button is pressed: the two membership checks run at once, then the
\* callback suspends in `await get_server_config(...)`.
JoinClick(s, a) ==
  /\ chan[s] = "open"
  /\ Press
  /\ IF JoinRejectDup(s, a)
     THEN /\ resp' = Resp(s, a, "join", "already")
          /\ UNCHANGED tasks
     ELSE IF JoinRejectFull(s)
     THEN /\ resp' = Resp(s, a, "join", "full")
          /\ UNCHANGED tasks
     ELSE /\ InFlight < MaxInFlight
          /\ tasks' = Spawn([Task("join", s, a, "cfg") EXCEPT !.emb = display[s]])
          /\ resp' = NoResp
  /\ UNCHANGED <<sessionVars, dbVars, guildRoles, guildChannels, legacy_points, events, command_locks, counterVars, ghostVars>>

\* get_server_config returns: the role check, then the append and the
\* rewrite of the embed, then the callback suspends in `message.edit`.
JoinConfig(t) ==
  /\ t.kind = "join" /\ t.pc = "cfg"
  /\ GetServerConfigEffect
  /\ IF JoinRejectRole(t.actor)
     THEN /\ resp' = Resp(t.s, t.actor, "join", "norole")
          /\ tasks' = Finish(t)
          /\ UNCHANGED helpers
     ELSE /\ helpers' = [helpers EXCEPT ![t.s] = Append(@, t.actor)]
          /\ tasks' = Replace(t, [t EXCEPT !.pc = "edit",
                                  !.emb = ReplaceFirst(@, Empty, t.actor)])
          /\ resp' = NoResp
  /\ UNCHANGED <<clicks, slots, category, chan, display, owner, reward, messages, chanName, config, admin_roles, user_points,
                 guildRoles, guildChannels, legacy_points, events, command_locks, counterVars, ghostVars>>

\* message.edit returns: the actor is told the join was accepted.
JoinEdit(t) ==
  /\ t.kind = "join" /\ t.pc = "edit"
  /\ chan[t.s] = "open"
  /\ display' = [display EXCEPT ![t.s] = t.emb]
  /\ tasks' = Finish(t)
  /\ resp' = Resp(t.s, t.actor, "join", "accepted")
  /\ net' = [net EXCEPT ![t.s] = @ + 1]
  /\ UNCHANGED <<clicks, helpers, slots, category, chan, owner, reward, messages, chanName, dbVars, guildRoles, guildChannels, legacy_points, events, command_locks, counterVars, transcripts,
                 credits, closeRoster, fails>>

\* get_server_config or message.edit raises: `except Exception` tells the
\* actor that the join failed.  Nothing is undone.
JoinFail(t) ==
  /\ t.kind = "join" /\ t.pc \in {"cfg", "edit"}
  /\ Raise(t.pc = "edit" /\ chan[t.s] = "deleted")
  /\ tasks' = Finish(t)
  /\ resp' = Resp(t.s, t.actor, "join", "error")
  /\ UNCHANGED <<clicks, sessionVars, dbVars, guildRoles, guildChannels, legacy_points, events, command_locks, counterVars, transcripts,
                 net, credits, closeRoster>>

\* ------------------------------------------------ LeaveButton.callback
\* `if interaction.user not in self.ticket_view.helpers`
LeaveRejectAbsent(s, a) == a \notin Range(helpers[s])

\* The button is pressed: the check and helpers.remove run at once, then
\* the callback suspends in `message.edit`.
LeaveClick(s, a) ==
  /\ chan[s] = "open"
  /\ Press
  /\ IF LeaveRejectAbsent(s, a)
     THEN /\ resp' = Resp(s, a, "leave", "notin")
          /\ UNCHANGED <<tasks, helpers>>
     ELSE /\ InFlight < MaxInFlight
          /\ helpers' = [helpers EXCEPT ![s] = ListRemove(@, a)]
          /\ tasks' = Spawn([Task("leave", s, a, "edit") EXCEPT
                                !.emb = ReplaceFirst(display[s], a, Empty)])
          /\ resp' = NoResp
  /\ UNCHANGED <<slots, category, chan, display, owner, reward, messages, chanName, dbVars, guildRoles, guildChannels, legacy_points, events, command_locks, counterVars,
                 ghostVars>>

LeaveEdit(t) ==
  /\ t.kind = "leave" /\ t.pc = "edit"
  /\ chan[t.s] = "open"
  /\ display' = [display EXCEPT ![t.s] = t.emb]
  /\ tasks' = Finish(t)
  /\ resp' = Resp(t.s, t.actor, "leave", "accepted")
  /\ net' = [net EXCEPT ![t.s] = @ - 1]
  /\ UNCHANGED <<clicks, helpers, slots, category, chan, owner, reward, messages, chanName, dbVars, guildRoles, guildChannels, legacy_points, events, command_locks, counterVars, transcripts,
                 credits, closeRoster, fails>>

LeaveFail(t) ==
  /\ t.kind = "leave" /\ t.pc = "edit"
  /\ Raise(chan[t.s] = "deleted")
  /\ tasks' = Finish(t)
  /\ resp' = Resp(t.s, t.actor, "leave", "error")
  /\ UNCHANGED <<clicks, sessionVars, dbVars, guildRoles, guildChannels, legacy_points, events, command_locks, counterVars, transcripts,
                 net, credits, closeRoster>>


\* ------------------------------------------ RemoveHelperButton.callback
\* the search reports a helper whatever the roster holds
RemoveFindAlways(s, v) == TRUE

\* `for helper in self.ticket_view.helpers: if helper.id == helper_id`
RemoveFind(s, v) == v \in Range(helpers[s])

\* The button is pressed: the callback suspends in `await get_admin_roles`.
RemoveClick(s, a) ==
  /\ chan[s] = "open"
  /\ Press
  /\ InFlight < MaxInFlight
  /\ tasks' = Spawn(Task("remove", s, a, "admin"))
  /\ resp' = NoResp
  /\ UNCHANGED <<sessionVars, dbVars, guildRoles, guildChannels, legacy_points, events, command_locks, counterVars,
                 ghostVars>>

\* get_admin_roles returns: a non-admin is turned away, an empty roster is
\* reported; otherwise the options of the selection list are built from the
\* roster and the callback suspends in the response that carries the list.
RemoveAdmin(t) ==
  /\ t.kind = "remove" /\ t.pc = "admin"
  /\ IF ~IsAdmin(t.actor)
     THEN /\ tasks' = Finish(t)
          /\ resp' = Resp(t.s, t.actor, "remove", "denied")
     ELSE IF helpers[t.s] = <<>>
     THEN /\ tasks' = Finish(t)
          /\ resp' = Resp(t.s, t.actor, "remove", "nohelpers")
     ELSE /\ tasks' = Replace(t, [t EXCEPT !.hdr = helpers[t.s], !.pc = "menu"])
          /\ resp' = NoResp
  /\ UNCHANGED <<clicks, sessionVars, dbVars, guildRoles, guildChannels, legacy_points, events, command_locks,
                 counterVars, ghostVars>>

\* The response is sent: the actor sees the selection list, which stays
\* usable until the view times out.
RemoveMenu(t) ==
  /\ t.kind = "remove" /\ t.pc = "menu"
  /\ tasks' = Replace(t, [t EXCEPT !.pc = "select"])
  /\ resp' = Resp(t.s, t.actor, "remove", "menu")
  /\ UNCHANGED <<clicks, sessionVars, dbVars, guildRoles, guildChannels, legacy_points, events, command_locks,
                 counterVars, ghostVars>>

\* HelperRemoveSelect.callback: the actor picks option v.  The helper is
\* looked up in the live roster.  When it is found it is removed, and then
\* `select_interaction.message.embeds[0]` raises IndexError: the message of a
\* select interaction is the message that carries the select, which is the
\* ephemeral response sent above and has no embed.  The callback has no
\* `try`, so the ticket message is not edited and no answer is sent.  When
\* the helper is not found the actor is told so.
RemoveSelect(t, v) ==
  /\ t.kind = "remove" /\ t.pc = "select"
  /\ v \in Range(t.hdr)
  /\ IF RemoveFind(t.s, v)
     THEN /\ helpers' = [helpers EXCEPT ![t.s] = ListRemove(@, v)]
          /\ resp' = RespAbout(t.s, t.actor, "remove", "raised", v)
     ELSE /\ resp' = RespAbout(t.s, t.actor, "remove", "notfound", v)
          /\ UNCHANGED helpers
  /\ UNCHANGED <<clicks, tasks, slots, category, chan, display, owner, reward, messages, chanName, dbVars,
                 guildRoles, guildChannels, legacy_points, events, command_locks, counterVars, ghostVars>>

\* `View(timeout=60)`: the selection list stops taking input.
RemoveTimeout(t) ==
  /\ t.kind = "remove" /\ t.pc = "select"
  /\ tasks' = Finish(t)
  /\ resp' = NoResp
  /\ UNCHANGED <<clicks, sessionVars, dbVars, guildRoles, guildChannels, legacy_points, events, command_locks,
                 counterVars, ghostVars>>

\* get_admin_roles or the response raises: `except Exception` reports it.
RemoveFail(t) ==
  /\ t.kind = "remove" /\ t.pc \in {"admin", "menu"}
  /\ Raise(FALSE)
  /\ tasks' = Finish(t)
  /\ resp' = Resp(t.s, t.actor, "remove", "error")
  /\ UNCHANGED <<clicks, sessionVars, dbVars, guildRoles, guildChannels, legacy_points, events, command_locks,
                 counterVars, transcripts, net, credits, closeRoster>>


\* ------------------------------------------------ remove_helper (!removehelper)
\* `for channel in ticket_category.text_channels`: the ticket channels are
\* visited in order; CmdNext moves the command to the first channel after
\* session i, or to the closing report when there is none.
CmdNext(t) ==
  LET rest == {s \in Sessions : s > t.s /\ chan[s] # "none"}
  IN IF rest = {} THEN [t EXCEPT !.pc = "report", !.emb = <<>>]
     ELSE [t EXCEPT !.s = CHOOSE s \in rest : \A s2 \in rest : s <= s2,
                    !.pc = "hist", !.emb = <<>>]

\* An admin sends `!removehelper <user>`: the command suspends in
\* `await get_admin_roles`.
RemoveCmd(a, u) ==
  /\ Press
  /\ InFlight < MaxInFlight
  /\ tasks' = Spawn([Task("cmd", 0, a, "admin") EXCEPT !.tgt = u])
  /\ resp' = NoResp
  /\ UNCHANGED <<sessionVars, dbVars, guildRoles, guildChannels, legacy_points, events, command_locks, counterVars,
                 ghostVars>>

\* get_admin_roles returns: a non-admin is turned away, for an admin the
\* command suspends in `await get_server_config`.
CmdAdmin(t) ==
  /\ t.kind = "cmd" /\ t.pc = "admin"
  /\ IF ~IsAdmin(t.actor)
     THEN /\ tasks' = Finish(t)
          /\ resp' = RespAbout(0, t.actor, "cmd", "denied", t.tgt)
     ELSE /\ tasks' = Replace(t, [t EXCEPT !.pc = "cfg"])
          /\ resp' = NoResp
  /\ UNCHANGED <<clicks, sessionVars, dbVars, guildRoles, guildChannels, legacy_points, events, command_locks,
                 counterVars, ghostVars>>

\* get_server_config returns: without a row, a ticket category or a category
\* that resolves the command ends; otherwise the loop over the ticket
\* channels starts and the command suspends in `channel.history`.
CmdConfig(t) ==
  /\ t.kind = "cmd" /\ t.pc = "cfg"
  /\ GetServerConfigEffect
  /\ IF ~config.present \/ config.ticket_category_id = NoId
     THEN /\ tasks' = Finish(t)
          /\ resp' = RespAbout(0, t.actor, "cmd", "notconfigured", t.tgt)
     ELSE IF config.ticket_category_id \notin guildChannels
     THEN /\ tasks' = Finish(t)
          /\ resp' = RespAbout(0, t.actor, "cmd", "nocategory", t.tgt)
     ELSE /\ tasks' = Replace(t, CmdNext(t))
          /\ resp' = NoResp
  /\ UNCHANGED <<clicks, sessionVars, config, admin_roles, user_points,
                 guildRoles, guildChannels, legacy_points, events, command_locks, counterVars, ghostVars>>

\* channel.history returns the ticket message: when a line of its "Helpers"
\* field mentions the user the line is rewritten to "[Empty]" and the
\* command suspends in `message.edit`; otherwise the next channel is taken.
\* `ticket_view.helpers` is not read and not written anywhere in the command.
CmdHistory(t) ==
  /\ t.kind = "cmd" /\ t.pc = "hist"
  /\ chan[t.s] \in {"open", "created"}
  /\ tasks' = Replace(t, IF chan[t.s] = "open" /\ t.tgt \in Range(display[t.s])
                          THEN [t EXCEPT !.pc = "edit",
                                  !.emb = ReplaceFirst(display[t.s], t.tgt, Empty)]
                          ELSE CmdNext(t))
  /\ resp' = NoResp
  /\ UNCHANGED <<clicks, sessionVars, dbVars, guildRoles, guildChannels, legacy_points, events, command_locks,
                 counterVars, ghostVars>>

\* message.edit returns: the channel is added to removed_from and the command
\* suspends in the `channel.send` that tells the ticket about the removal.
CmdEdit(t) ==
  /\ t.kind = "cmd" /\ t.pc = "edit"
  /\ chan[t.s] = "open"
  /\ display' = [display EXCEPT ![t.s] = t.emb]
  /\ tasks' = Replace(t, [t EXCEPT !.pc = "notify", !.hdr = Append(@, t.s),
                          !.emb = <<>>])
  /\ resp' = NoResp
  /\ UNCHANGED <<clicks, helpers, slots, category, chan, owner, reward, messages, chanName, dbVars,
                 guildRoles, guildChannels, legacy_points, events, command_locks, counterVars, ghostVars>>

\* channel.send returns: the ticket has been told that the user "has been
\* removed from this ticket"; the next channel is taken.
CmdNotify(t) ==
  /\ t.kind = "cmd" /\ t.pc = "notify"
  /\ chan[t.s] = "open"
  /\ messages' = [messages EXCEPT ![t.s] = @ + 1]
  /\ tasks' = Replace(t, CmdNext(t))
  /\ resp' = RespAbout(t.s, t.actor, "cmd", "notified", t.tgt)
  /\ UNCHANGED <<clicks, helpers, slots, category, chan, display, owner, reward,
                 chanName, dbVars, guildRoles, guildChannels, legacy_points, events, command_locks,
                 counterVars, ghostVars>>

\* The loop is over: `if removed_from` the admin is told from how many and
\* which tickets the user was removed (the answer carries the first of them),
\* otherwise that the user was not found in any.
CmdReport(t) ==
  /\ t.kind = "cmd" /\ t.pc = "report"
  /\ tasks' = Finish(t)
  /\ resp' = IF t.hdr # <<>>
             THEN RespAbout(Head(t.hdr), t.actor, "cmd", "removed", t.tgt)
             ELSE RespAbout(0, t.actor, "cmd", "notfound", t.tgt)
  /\ UNCHANGED <<clicks, sessionVars, dbVars, guildRoles, guildChannels, legacy_points, events, command_locks,
                 counterVars, ghostVars>>

\* A call inside the loop raises (always, on a deleted channel): the
\* `except Exception` of the loop body logs it and `continue`s.  A call
\* before the loop raises: the command ends with the error.
CmdFail(t) ==
  /\ t.kind = "cmd" /\ t.pc \in {"admin", "cfg", "hist", "edit", "notify"}
  /\ Raise(t.pc \in {"hist", "edit", "notify"} /\ chan[t.s] = "deleted")
  /\ IF t.pc \in {"admin", "cfg"}
     THEN /\ tasks' = Finish(t)
          /\ resp' = RespAbout(0, t.actor, "cmd", "error", t.tgt)
     ELSE /\ tasks' = Replace(t, CmdNext(t))
          /\ resp' = NoResp
  /\ UNCHANGED <<clicks, sessionVars, dbVars, guildRoles, guildChannels, legacy_points, events, command_locks,
                 counterVars, transcripts, net, credits, closeRoster>>


\* ------------------------------------------------ CloseButton.callback
\* `for helper in self.ticket_view.helpers:` is an index into the live list:
\* the loop head takes element i (0-based) if the list still has one.
LoopHead(t) ==
  IF t.i < Len(helpers[t.s])
  THEN [t EXCEPT !.tgt = helpers[t.s][t.i + 1], !.i = t.i + 1, !.pc = "get"]
  ELSE [t EXCEPT !.tgt = NoId, !.pc = "sleep"]

\* `new_points = current_points + points_to_award`
NewPoints(current_points, points_to_award) == current_points + points_to_award

\* the test for a destination left out
TranscriptConfiguredAlways == TRUE

\* `config and config.get('transcript_channel_id')` and the channel resolves
TranscriptConfigured ==
  /\ config.present /\ config.transcript_channel_id # NoId
  /\ config.transcript_channel_id \in guildChannels

\* The button is pressed: the callback suspends in `await get_admin_roles`.
CloseClick(s, a) ==
  /\ chan[s] = "open"
  /\ Press
  /\ InFlight < MaxInFlight
  /\ tasks' = Spawn(Task("close", s, a, "admin"))
  /\ resp' = NoResp
  /\ UNCHANGED <<sessionVars, dbVars, guildRoles, guildChannels, legacy_points, events, command_locks, counterVars, ghostVars>>

\* get_admin_roles returns: a non-admin is turned away; for an admin the
\* callback suspends in the "Closing ticket..." response.
CloseAdmin(t) ==
  /\ t.kind = "close" /\ t.pc = "admin"
  /\ IF ~IsAdmin(t.actor)
     THEN /\ tasks' = Finish(t)
          /\ resp' = Resp(t.s, t.actor, "close", "denied")
          /\ UNCHANGED closeRoster
     ELSE /\ tasks' = Replace(t, [t EXCEPT !.pc = "resp"])
          /\ resp' = Resp(t.s, t.actor, "close", "closing")
          /\ closeRoster' = [closeRoster EXCEPT ![t.s] =
                               IF @ = <<>> THEN <<helpers[t.s]>> ELSE @]
  /\ UNCHANGED <<clicks, sessionVars, dbVars, guildRoles, guildChannels, legacy_points, events, command_locks, counterVars, transcripts,
                 net, credits, fails>>

\* The response is sent: the transcript header is built from the roster,
\* then the callback suspends in `channel.history`.
CloseHeader(t) ==
  /\ t.kind = "close" /\ t.pc = "resp"
  /\ tasks' = Replace(t, [t EXCEPT !.hdr = helpers[t.s], !.pc = "hist"])
  /\ resp' = NoResp
  /\ UNCHANGED <<clicks, sessionVars, dbVars, guildRoles, guildChannels, legacy_points, events, command_locks, counterVars, ghostVars>>

\* `limit=100` of the call of channel.history
HistoryLimit == 100

\* channel.history(limit=limit, oldest_first=True) on a channel that holds n
\* messages (message i is the i-th oldest): with oldest_first the library
\* walks the channel forward from its first message and stops after `limit`
\* messages, so it yields messages 1..limit.
History(n, limit) == [i \in 1..(IF n < limit THEN n ELSE limit) |-> i]

\* The history is read and the transcript body (one line per message, in
\* the order read) is built: the callback suspends in `get_server_config`.
CloseHistory(t) ==
  /\ t.kind = "close" /\ t.pc = "hist"
  /\ tasks' = Replace(t, [t EXCEPT !.pc = "cfg",
                          !.emb = History(messages[t.s], HistoryLimit)])
  /\ resp' = NoResp
  /\ UNCHANGED <<clicks, sessionVars, dbVars, guildRoles, guildChannels, legacy_points, events, command_locks, counterVars, ghostVars>>

\* get_server_config returns: with a transcript destination the callback
\* suspends in `transcript_channel.send`, without one in `get_point_values`.
CloseConfig(t) ==
  /\ t.kind = "close" /\ t.pc = "cfg"
  /\ GetServerConfigEffect
  /\ tasks' = Replace(t, IF TranscriptConfigured
                          THEN [t EXCEPT !.pc = "send"]
                          ELSE [t EXCEPT !.pc = "pv", !.hdr = <<>>, !.emb = <<>>])
  /\ resp' = NoResp
  /\ UNCHANGED <<clicks, sessionVars, config, admin_roles, user_points, guildRoles, guildChannels, legacy_points, events, command_locks,
                 counterVars, ghostVars>>

\* The transcript is delivered: the callback suspends in `get_point_values`.
CloseSend(t) ==
  /\ t.kind = "close" /\ t.pc = "send"
  /\ transcripts' = [transcripts EXCEPT ![t.s] = @ \cup {t.hdr}]
  /\ tasks' = Replace(t, [t EXCEPT !.pc = "pv", !.hdr = <<>>, !.emb = <<>>])
  /\ resp' = NoResp
  /\ UNCHANGED <<clicks, sessionVars, dbVars, guildRoles, guildChannels, legacy_points, events, command_locks, counterVars, net, credits,
                 closeRoster, fails>>

\* get_point_values returns: `points_to_award = point_values.get(category, 0)`
\* and the loop over the helpers starts.
ClosePointValues(t) ==
  /\ t.kind = "close" /\ t.pc = "pv"
  /\ tasks' = Replace(t, LoopHead([t EXCEPT
                 !.pts = DictGet(get_point_values, category[t.s], 0),
                 !.i = 0]))
  /\ resp' = NoResp
  /\ UNCHANGED <<clicks, sessionVars, dbVars, guildRoles, guildChannels, legacy_points, events, command_locks, counterVars, ghostVars>>

\* db.get_user_points returns the helper's stored balance.
CloseGetPoints(t) ==
  /\ t.kind = "close" /\ t.pc = "get"
  /\ tasks' = Replace(t, [t EXCEPT !.cur = user_points[t.g][t.tgt], !.pc = "put"])
  /\ resp' = NoResp
  /\ UNCHANGED <<clicks, sessionVars, dbVars, guildRoles, guildChannels, legacy_points, events, command_locks, counterVars, ghostVars>>

\* db.update_user_points stores the new balance; the loop goes on.
CloseUpdatePoints(t) ==
  /\ t.kind = "close" /\ t.pc = "put"
  /\ user_points' = [user_points EXCEPT ![t.g][t.tgt] = NewPoints(t.cur, t.pts)]
  /\ credits' = [credits EXCEPT ![t.s][t.tgt] = @ + 1]
  /\ tasks' = Replace(t, LoopHead([t EXCEPT !.cur = 0]))
  /\ resp' = NoResp
  /\ UNCHANGED <<clicks, sessionVars, config, point_values, helper_slots, custom_rules,
                 admin_roles, guildRoles, guildChannels, legacy_points, events, command_locks, counterVars, transcripts, net,
                 closeRoster, fails>>

\* the sleep never returns
CloseSleepForever(t) == FALSE

\* `await asyncio.sleep(3)` is over: the callback suspends in channel.delete.
CloseSleep(t) ==
  /\ t.kind = "close" /\ t.pc = "sleep"
  /\ tasks' = Replace(t, [t EXCEPT !.pc = "del"])
  /\ resp' = NoResp
  /\ UNCHANGED <<clicks, sessionVars, dbVars, guildRoles, guildChannels, legacy_points, events, command_locks, counterVars, ghostVars>>

\* channel.delete destroys the backing channel.
CloseDelete(t) ==
  /\ t.kind = "close" /\ t.pc = "del"
  /\ chan[t.s] = "open"
  /\ chan' = [chan EXCEPT ![t.s] = "deleted"]
  /\ tasks' = Finish(t)
  /\ resp' = NoResp
  /\ UNCHANGED <<clicks, helpers, slots, category, display, owner, reward, messages, chanName, dbVars, guildRoles, guildChannels, legacy_points, events, command_locks,
                 counterVars, ghostVars>>

\* An awaited call of the close raises (always, when it addresses a channel
\* that is already deleted): `except Exception` reports the error.
CloseFail(t) ==
  /\ t.kind = "close" /\ t.pc # "sleep"
  /\ Raise(t.pc \in {"resp", "hist", "del"} /\ chan[t.s] = "deleted")
  /\ tasks' = Finish(t)
  /\ resp' = Resp(t.s, t.actor, "close", "error")
  /\ UNCHANGED <<clicks, sessionVars, dbVars, guildRoles, guildChannels, legacy_points, events, command_locks, counterVars, transcripts,
                 net, credits, closeRoster>>

\* ------------------------------------------------------- the platform
\* A role is deleted on the platform: guild.get_role no longer resolves it
\* and no member holds it; the ids stored in the tables stay.
DeleteRole(r) ==
  /\ r \in guildRoles
  /\ guildRoles' = guildRoles \ {r}
  /\ resp' = NoResp
  /\ UNCHANGED <<clicks, sessionVars, tasks, dbVars, guildChannels, legacy_points, events, command_locks, counterVars,
                 ghostVars>>

\* A channel is deleted on the platform: guild.get_channel no longer resolves
\* it; the id stored in server_configs stays.
DeleteChannel(c) ==
  /\ c \in guildChannels
  /\ guildChannels' = guildChannels \ {c}
  /\ resp' = NoResp
  /\ UNCHANGED <<clicks, sessionVars, tasks, dbVars, guildRoles, command_locks,
                 legacy_points, events, counterVars, ghostVars>>

\* ---------------------------------------------------- specification Spec
\* One open session with an empty roster, in a guild whose tables hold any
\* of the configurations the setup actions can have stored.
InitDb ==
  /\ config \in {NoConfig} \cup ConfigRows
  /\ point_values = EmptyDict
  /\ helper_slots = [c \in SessionCategories |-> MaxSlots]
  /\ custom_rules = {}
  /\ admin_roles = {AdminRole}
  /\ guildRoles = RoleIds
  /\ guildChannels = ChannelIds
  /\ user_points = [g \in GuildIds |-> [u \in Users |-> 0]]

InitIdle ==
  /\ tasks = EmptyBag
  /\ ticket_numbers = [g \in GuildIds |->
                         [c \in {"Grim Express", "Daily Temple Express"} |-> 0]]
  /\ calls = EmptyBag
  /\ returned = <<>>
  /\ resp = NoResp
  /\ transcripts = [s \in Sessions |-> {}]
  /\ net = [s \in Sessions |-> 0]
  /\ credits = [s \in Sessions |-> [u \in Users |-> 0]]
  /\ closeRoster = [s \in Sessions |-> <<>>]
  /\ fails = 0
  /\ clicks = 0
  /\ command_locks = {}
  /\ legacy_points = EmptyDict
  /\ events = {}

\* The ticket message and the channel name of the sessions that are open at
\* the start, as TicketModal.on_submit made them: the reward shown is the
\* point value of the category at that time, the ticket message is the one
\* message in the channel.
InitTicketMessage ==
  /\ reward = [s \in Sessions |->
                 IF chan[s] = "open"
                 THEN DictGet(get_point_values, category[s], 0) ELSE 0]
  /\ messages = [s \in Sessions |-> IF chan[s] = "open" THEN 1 ELSE 0]
  /\ chanName = [s \in Sessions |->
                   IF chan[s] = "open" THEN category[s] ELSE NoId]

Init ==
  /\ InitDb
  /\ InitIdle
  /\ helpers = [s \in Sessions |-> <<>>]
  /\ slots = [s \in Sessions |-> MaxSlots]
  /\ display = [s \in Sessions |-> EmptyLines(MaxSlots)]
  /\ \E c \in SessionCategories : category = [s \in Sessions |-> c]
  /\ chan = [s \in Sessions |-> IF s = 1 THEN "open" ELSE "none"]
  /\ owner = [s \in Sessions |-> IF s = 1 THEN "C" ELSE NoId]
  /\ InitTicketMessage

Resume(t) ==
  \/ JoinConfig(t) \/ JoinEdit(t) \/ JoinFail(t)
  \/ LeaveEdit(t) \/ LeaveFail(t)
  \/ CloseAdmin(t) \/ CloseHeader(t) \/ CloseHistory(t) \/ CloseConfig(t)
  \/ CloseSend(t) \/ ClosePointValues(t) \/ CloseGetPoints(t)
  \/ CloseUpdatePoints(t) \/ CloseSleep(t) \/ CloseDelete(t) \/ CloseFail(t)

Next ==
  \/ \E s \in Sessions, a \in Users :
       JoinClick(s, a) \/ LeaveClick(s, a) \/ CloseClick(s, a)
  \/ \E t \in BagToSet(tasks) : Resume(t)
  \/ \E r \in {HelperRole} : DeleteRole(r)

Spec == Init /\ [][Next]_vars

\* ------------------------------------- DatabaseManager.get_next_ticket_number
\* `new_num = current_num + 1`
NewNum(current_num) == current_num + 1

CounterCategories == {"Grim Express", "Daily Temple Express"}

\* The call starts: it suspends in the SELECT on its own connection.
NextNumberCall(g, c) ==
  /\ BagCardinality(calls) < MaxInFlight
  /\ BagCardinality(calls) + Len(returned) < MaxCalls
  /\ calls' = calls (+) SetToBag({[g |-> g, cat |-> c, pc |-> "select",
                                   cur |-> 0]})
  /\ UNCHANGED <<sessionVars, tasks, dbVars, guildRoles, guildChannels, legacy_points, events, command_locks, ticket_numbers,
                 returned, resp, ghostVars, clicks>>

\* The SELECT returns `row[0] if row else 0`; the call suspends in the upsert.
NextNumberSelect(k) ==
  /\ k.pc = "select"
  /\ calls' = (calls (-) SetToBag({k})) (+)
              SetToBag({[k EXCEPT !.cur = ticket_numbers[k.g][k.cat],
                                  !.pc = "upsert"]})
  /\ UNCHANGED <<sessionVars, tasks, dbVars, guildRoles, guildChannels, legacy_points, events, command_locks, ticket_numbers,
                 returned, resp, ghostVars, clicks>>

\* The upsert stores new_num, the commit follows and new_num is returned.
NextNumberUpsert(k) ==
  /\ k.pc = "upsert"
  /\ ticket_numbers' = [ticket_numbers EXCEPT ![k.g][k.cat] = NewNum(k.cur)]
  /\ returned' = Append(returned, [g |-> k.g, cat |-> k.cat,
                                 num |-> NewNum(k.cur)])
  /\ calls' = calls (-) SetToBag({k})
  /\ UNCHANGED <<sessionVars, tasks, dbVars, guildRoles, guildChannels, legacy_points, events, command_locks, resp, ghostVars,
                 clicks>>

\* ------------------------------------------------- TicketModal.on_submit
\* the blocked-role test left out
CreateRejectBlockedSkipped(a) == FALSE

\* `if blocked_role_id: blocked_role = guild.get_role(blocked_role_id);
\*  if blocked_role and blocked_role in interaction.user.roles`
CreateRejectBlocked(a) ==
  /\ config.blocked_role_id # NoId
  /\ config.blocked_role_id \in guildRoles
  /\ config.blocked_role_id \in UserRoles(a)

\* creates that have not produced their channel yet
CreatesPending ==
  Cardinality({t \in BagToSet(tasks) : t.kind = "create" /\ t.s = 0})

\* The modal is submitted for category c: on_submit suspends in
\* `await get_server_config`.
CreateSubmit(a, c) ==
  /\ Press
  /\ InFlight < MaxInFlight
  /\ CreatesPending + Cardinality({s \in Sessions : chan[s] # "none"})
       < Cardinality(Sessions)
  /\ ~ \E t \in BagToSet(tasks) : t.kind = "create" /\ t.actor = a
  /\ tasks' = Spawn([Task("create", 0, a, "cfg") EXCEPT !.tgt = c])
  /\ resp' = NoResp
  /\ UNCHANGED <<sessionVars, dbVars, guildRoles, guildChannels, legacy_points, events, command_locks, counterVars,
                 ghostVars>>

\* get_server_config returns: without a row the create ends; the holder of
\* the blocked role is turned away; otherwise the ticket category is resolved
\* (cur = 1 when it resolves) and on_submit suspends in `get_admin_roles`.
CreateConfig(t) ==
  /\ t.kind = "create" /\ t.pc = "cfg"
  /\ GetServerConfigEffect
  /\ IF ~config.present
     THEN /\ tasks' = Finish(t)
          /\ resp' = Resp(0, t.actor, "create", "notconfigured")
     ELSE IF CreateRejectBlocked(t.actor)
     THEN /\ tasks' = Finish(t)
          /\ resp' = Resp(0, t.actor, "create", "blocked")
     ELSE /\ tasks' = Replace(t, [t EXCEPT !.pc = "admin",
                 !.cur = IF config.ticket_category_id \in guildChannels
                         THEN 1 ELSE 0])
          /\ resp' = NoResp
  /\ UNCHANGED <<clicks, sessionVars, config, admin_roles, user_points,
                 guildRoles, guildChannels, legacy_points, events, command_locks, counterVars, ghostVars>>

\* get_admin_roles returns: `if not ticket_category` the create ends;
\* otherwise the permission overwrites are built and on_submit suspends in
\* the SELECT of `db.get_next_ticket_number`.
CreateAdmin(t) ==
  /\ t.kind = "create" /\ t.pc = "admin"
  /\ IF t.cur = 0
     THEN /\ tasks' = Finish(t)
          /\ resp' = Resp(0, t.actor, "create", "nocategory")
     ELSE /\ tasks' = Replace(t, [t EXCEPT !.pc = "select", !.cur = 0])
          /\ resp' = NoResp
  /\ UNCHANGED <<clicks, sessionVars, dbVars, guildRoles, guildChannels, legacy_points, events, command_locks,
                 counterVars, ghostVars>>

\* get_next_ticket_number: the SELECT returns the stored number.
CreateNumberSelect(t) ==
  /\ t.kind = "create" /\ t.pc = "select"
  /\ tasks' = Replace(t, [t EXCEPT !.cur = ticket_numbers[t.g][t.tgt], !.pc = "upsert"])
  /\ resp' = NoResp
  /\ UNCHANGED <<clicks, sessionVars, dbVars, guildRoles, guildChannels, legacy_points, events, command_locks,
                 counterVars, ghostVars>>

\* get_next_ticket_number: the upsert stores new_num and returns it;
\* on_submit suspends in `guild.create_text_channel`.
CreateNumberUpsert(t) ==
  /\ t.kind = "create" /\ t.pc = "upsert"
  /\ ticket_numbers' = [ticket_numbers EXCEPT ![t.g][t.tgt] = NewNum(t.cur)]
  /\ returned' = Append(returned, [g |-> t.g, cat |-> t.tgt,
                                 num |-> NewNum(t.cur)])
  /\ tasks' = Replace(t, [t EXCEPT !.cur = NewNum(t.cur), !.pc = "chan"])
  /\ resp' = NoResp
  /\ UNCHANGED <<clicks, sessionVars, dbVars, guildRoles, guildChannels, legacy_points, events, command_locks, calls,
                 ghostVars>>

\* create_text_channel returns the new channel; it carries no ticket message
\* yet.  on_submit suspends in `get_helper_slots`.
CreateChannel(t) ==
  /\ t.kind = "create" /\ t.pc = "chan"
  /\ \E s \in Sessions :
       /\ chan[s] = "none"
       /\ \A s2 \in Sessions : chan[s2] = "none" => s <= s2
       /\ chan' = [chan EXCEPT ![s] = "created"]
       /\ chanName' = [chanName EXCEPT ![s] = t.tgt]
       /\ messages' = [messages EXCEPT ![s] = 0]
       /\ tasks' = Replace(t, [t EXCEPT !.s = s, !.cur = 0, !.pc = "slots"])
  /\ resp' = NoResp
  /\ UNCHANGED <<clicks, helpers, slots, category, display, owner, reward, dbVars,
                 guildRoles, guildChannels, legacy_points, events, command_locks, counterVars, ghostVars>>

\* get_helper_slots returns: on_submit suspends in `get_point_values`.
CreateSlots(t) ==
  /\ t.kind = "create" /\ t.pc = "slots"
  /\ tasks' = Replace(t, [t EXCEPT !.i = DictGet(get_helper_slots, t.tgt, DEFAULT_SLOTS),
                          !.pc = "pv"])
  /\ resp' = NoResp
  /\ UNCHANGED <<clicks, sessionVars, dbVars, guildRoles, guildChannels, legacy_points, events, command_locks,
                 counterVars, ghostVars>>

\* get_point_values returns: the embed with one "[Empty]" line per slot and
\* the ActiveTicketView (owner, category, slots, no helpers) are built and
\* on_submit suspends in the `channel.send` of the ticket message.
CreatePoints(t) ==
  /\ t.kind = "create" /\ t.pc = "pv"
  /\ helpers' = [helpers EXCEPT ![t.s] = <<>>]
  /\ slots' = [slots EXCEPT ![t.s] = t.i]
  /\ category' = [category EXCEPT ![t.s] = t.tgt]
  /\ owner' = [owner EXCEPT ![t.s] = t.actor]
  /\ tasks' = Replace(t, [t EXCEPT !.emb = EmptyLines(t.i), !.pc = "send",
                          !.pts = DictGet(get_point_values, t.tgt, 0)])
  /\ resp' = NoResp
  /\ UNCHANGED <<clicks, chan, display, reward, messages, chanName, dbVars, guildRoles, guildChannels, legacy_points, events, command_locks,
                 counterVars, ghostVars>>

\* channel.send returns: the ticket message with its buttons is in the
\* channel; on_submit suspends in the response to the requester.
CreateSend(t) ==
  /\ t.kind = "create" /\ t.pc = "send"
  /\ chan[t.s] = "created"
  /\ display' = [display EXCEPT ![t.s] = t.emb]
  /\ reward' = [reward EXCEPT ![t.s] = t.pts]
  /\ messages' = [messages EXCEPT ![t.s] = @ + 1]
  /\ chan' = [chan EXCEPT ![t.s] = "open"]
  /\ tasks' = Replace(t, [t EXCEPT !.emb = <<>>, !.i = 0, !.pts = 0, !.pc = "done"])
  /\ resp' = NoResp
  /\ UNCHANGED <<clicks, helpers, slots, category, owner, chanName, dbVars, guildRoles,
                 guildChannels, legacy_points, events, command_locks, counterVars, ghostVars>>

\* The requester is told that the ticket was created.
CreateDone(t) ==
  /\ t.kind = "create" /\ t.pc = "done"
  /\ tasks' = Finish(t)
  /\ resp' = Resp(t.s, t.actor, "create", "created")
  /\ UNCHANGED <<clicks, sessionVars, dbVars, guildRoles, guildChannels, legacy_points, events, command_locks,
                 counterVars, ghostVars>>

\* An awaited call of on_submit raises: `except Exception` reports the
\* error.  What the create has stored or created so far stays.
CreateFail(t) ==
  /\ t.kind = "create"
  /\ Raise(FALSE)
  /\ tasks' = Finish(t)
  /\ resp' = Resp(t.s, t.actor, "create", "error")
  /\ UNCHANGED <<clicks, sessionVars, dbVars, guildRoles, guildChannels, legacy_points, events, command_locks,
                 counterVars, transcripts, net, credits, closeRoster>>

\* ------------------------------------ command_lock and reset_points
\* names of the guild's roles
RoleName ==
  [r \in RoleIds |-> CASE r = HelperRole -> "helper"
                       [] r = AdminRole  -> "staff"
                       [] OTHER          -> "blocked"]

\* `any(r.name.lower() in ['admin', 'administrator', 'owner'] for r in user.roles)`
is_admin_legacy(u) ==
  \E r \in UserRoles(u) : RoleName[r] \in {"admin", "administrator", "owner"}

\* what stays as it is in every step of a points command
commandFrame == <<sessionVars, config, point_values, helper_slots,
                  custom_rules, admin_roles, guildRoles, guildChannels,
                  counterVars, transcripts, net, credits, closeRoster>>

\* main.get_admin_roles(ctx.guild.id): the rows of the guild.  The setup of
\* the second guild stored the admin role as well; its rows are not written
\* by any modelled step.
get_admin_roles(g) == IF g = ThisGuild THEN admin_roles ELSE {AdminRole}

\* `any(r.id in admin_roles for r in ctx.author.roles) or is_admin_legacy(...)`
is_admin(g, u) ==
  UserRoles(u) \cap get_admin_roles(g) # {} \/ is_admin_legacy(u)

\* `legacy_points[user_id] = v`
LegacySet(u, v) ==
  [x \in DOMAIN legacy_points \cup {u} |-> IF x = u THEN v ELSE legacy_points[x]]

\* `del legacy_points[user_id]`
LegacyDel(u) == [x \in DOMAIN legacy_points \ {u} |-> legacy_points[x]]

\* check_my_points: `user_points + legacy_points.get(str(id), 0)`, the total
\* `!mypoints` reports for a member of a guild
total_points(g, u) == user_points[g][u] + DictGet(legacy_points, u, 0)

\* the amounts an admin may type
Amounts == {-1, 0, 1, 2}

\* The record of a command that has passed the wrapper of command_lock: ctx
\* (guild, author), the arguments, and the total the member had on arrival.
CommandTask(name, g, a, m, n) ==
  [Task(name, 0, a, "admin") EXCEPT !.g = g, !.tgt = m, !.amount = n,
                                     !.before = IF m = NoId THEN 0
                                                ELSE total_points(g, m)]

\* the wrapper without its test of the lock
InvokeUnguarded(name, task) ==
  /\ Press
  /\ InFlight < MaxInFlight
  /\ command_locks' = command_locks \cup {name}
  /\ tasks' = Spawn(task)
  /\ UNCHANGED events
  /\ resp' = NoResp

\* the wrapper of command_lock(name): when `command_locks[name]` is True it
\* returns at once, without a word; otherwise it sets the lock and calls the
\* command, which suspends in its first await.
Invoke(name, task) ==
  /\ Press
  /\ IF name \in command_locks
     THEN /\ events' = events \cup {[ev |-> "dropped", g |-> task.g, kind |-> name]}
          /\ UNCHANGED <<tasks, command_locks>>
     ELSE /\ InFlight < MaxInFlight
          /\ command_locks' = command_locks \cup {name}
          /\ tasks' = Spawn(task)
          /\ UNCHANGED events
  /\ resp' = NoResp

\* the lock kept when the command ends
ReleaseNever(t) == UNCHANGED command_locks

\* `finally: command_locks[name] = False`
Release(t) == command_locks' = command_locks \ {t.kind}

\* The command's last ctx.send returns, the command returns and `finally`
\* releases the lock.
Return(t, outcome, total) ==
  /\ tasks' = Finish(t)
  /\ Release(t)
  /\ resp' = [RespAbout(0, t.actor, t.kind, outcome, t.tgt) EXCEPT !.total = total]
  /\ UNCHANGED <<commandFrame, clicks, fails, user_points, legacy_points, events>>

\* An awaited call of the command raises: no command has a handler for it,
\* `finally` releases the lock, nothing is sent.
Raised(t) ==
  /\ Raise(FALSE)
  /\ tasks' = Finish(t)
  /\ Release(t)
  /\ resp' = NoResp
  /\ events' = events \cup {[ev |-> "raised", g |-> t.g, kind |-> t.kind]}
  /\ UNCHANGED <<commandFrame, clicks, user_points, legacy_points>>

\* The command goes on to its next await without writing anything.
Goto(t, pc) ==
  /\ tasks' = Replace(t, [t EXCEPT !.pc = pc])
  /\ resp' = NoResp
  /\ UNCHANGED <<commandFrame, clicks, fails, user_points, legacy_points,
                 events, command_locks>>

\* `!resetpoints [member]` arrives (member NoId: no member given).  The
\* wrapper of command_lock runs first: when the lock of the name is held it
\* returns at once, without a word; otherwise it takes the lock and calls
\* reset_points, which suspends in `await get_admin_roles`.
ResetPointsCmd(g, a, m) ==
  /\ Press
  /\ IF "resetpoints" \in command_locks
     THEN /\ resp' = NoResp
          /\ events' = events \cup {[ev |-> "dropped", g |-> g,
                                     kind |-> "resetpoints"]}
          /\ UNCHANGED <<tasks, command_locks>>
     ELSE /\ InFlight < MaxInFlight
          /\ command_locks' = command_locks \cup {"resetpoints"}
          /\ tasks' = Spawn(CommandTask("resetpoints", g, a, m, 0))
          /\ resp' = NoResp
          /\ UNCHANGED events
  /\ UNCHANGED <<sessionVars, dbVars, guildRoles, guildChannels, legacy_points,
                 counterVars, ghostVars>>

\* get_admin_roles returns: a non-admin gets the denial, for a member the
\* points are set, without a member the confirmation is asked for; each of
\* these suspends in its first call.
ResetPointsAdmin(t) ==
  /\ t.kind = "resetpoints" /\ t.pc = "admin"
  /\ tasks' = Replace(t, [t EXCEPT !.pc =
                 IF ~ is_admin(t.g, t.actor) THEN "deny"
                 ELSE IF t.tgt # NoId THEN "set" ELSE "ask"])
  /\ resp' = NoResp
  /\ UNCHANGED <<clicks, sessionVars, dbVars, guildRoles, guildChannels, legacy_points, events,
                 command_locks, counterVars, ghostVars>>

\* The denial is sent; reset_points returns and `finally` releases the lock.
ResetPointsDeny(t) ==
  /\ t.kind = "resetpoints" /\ t.pc = "deny"
  /\ tasks' = Finish(t)
  /\ command_locks' = command_locks \ {"resetpoints"}
  /\ resp' = RespAbout(0, t.actor, "resetpoints", "denied", t.tgt)
  /\ UNCHANGED <<clicks, sessionVars, dbVars, guildRoles, guildChannels, legacy_points, events,
                 counterVars, ghostVars>>

\* db.set_user_points(member, 0) returns; the member's legacy entry is
\* deleted when there is one; the command suspends in ctx.send.
ResetPointsSet(t) ==
  /\ t.kind = "resetpoints" /\ t.pc = "set"
  /\ user_points' = [user_points EXCEPT ![t.g][t.tgt] = 0]
  /\ legacy_points' = LegacyDel(t.tgt)
  /\ tasks' = Replace(t, [t EXCEPT !.pc = "ok"])
  /\ resp' = NoResp
  /\ UNCHANGED <<clicks, sessionVars, config, point_values, helper_slots,
                 custom_rules, admin_roles, guildRoles, guildChannels, events,
                 command_locks, counterVars, ghostVars>>

\* "Reset <member>'s points to 0" is sent; the lock is released.
ResetPointsDone(t) ==
  /\ t.kind = "resetpoints" /\ t.pc = "ok"
  /\ tasks' = Finish(t)
  /\ command_locks' = command_locks \ {"resetpoints"}
  /\ resp' = RespAbout(0, t.actor, "resetpoints", "reset", t.tgt)
  /\ UNCHANGED <<clicks, sessionVars, dbVars, guildRoles, guildChannels, legacy_points, events,
                 counterVars, ghostVars>>

\* "Are you sure ... Type `confirm`" is sent; the command suspends in
\* `bot.wait_for('message', timeout=30.0)`.
ResetPointsAsk(t) ==
  /\ t.kind = "resetpoints" /\ t.pc = "ask"
  /\ tasks' = Replace(t, [t EXCEPT !.pc = "wait"])
  /\ resp' = RespAbout(0, t.actor, "resetpoints", "confirm?", t.tgt)
  /\ UNCHANGED <<clicks, sessionVars, dbVars, guildRoles, guildChannels, legacy_points, events,
                 command_locks, counterVars, ghostVars>>

\* wait_for times out: `except asyncio.TimeoutError` suspends in the ctx.send
\* of "Confirmation timed out".
ResetPointsTimeout(t) ==
  /\ t.kind = "resetpoints" /\ t.pc = "wait"
  /\ tasks' = Replace(t, [t EXCEPT !.pc = "timedout"])
  /\ resp' = NoResp
  /\ UNCHANGED <<clicks, sessionVars, dbVars, guildRoles, guildChannels, legacy_points, events,
                 command_locks, counterVars, ghostVars>>

\* "Confirmation timed out" is sent; the lock is released.
ResetPointsTimedOut(t) ==
  /\ t.kind = "resetpoints" /\ t.pc = "timedout"
  /\ tasks' = Finish(t)
  /\ command_locks' = command_locks \ {"resetpoints"}
  /\ resp' = RespAbout(0, t.actor, "resetpoints", "timedout", t.tgt)
  /\ UNCHANGED <<clicks, sessionVars, dbVars, guildRoles, guildChannels, legacy_points, events,
                 counterVars, ghostVars>>

\* The author types `confirm`: `db.clear_all_points` is looked up, and
\* DatabaseManager has no such method.  The AttributeError is not an
\* asyncio.TimeoutError, so it leaves reset_points; `finally` releases the
\* lock; nothing is reset and nothing is sent.
ResetPointsConfirm(t) ==
  /\ t.kind = "resetpoints" /\ t.pc = "wait"
  /\ tasks' = Finish(t)
  /\ command_locks' = command_locks \ {"resetpoints"}
  /\ resp' = NoResp
  /\ events' = events \cup {[ev |-> "confirmed", g |-> t.g, kind |-> t.kind]}
  /\ UNCHANGED <<clicks, sessionVars, dbVars, guildRoles, guildChannels,
                 legacy_points, counterVars, ghostVars>>

\* An awaited call of reset_points raises: the function has no handler for
\* it, `finally` releases the lock, nothing is sent.
ResetPointsFail(t) ==
  /\ t.kind = "resetpoints" /\ t.pc # "wait"
  /\ Raise(FALSE)
  /\ tasks' = Finish(t)
  /\ command_locks' = command_locks \ {"resetpoints"}
  /\ resp' = NoResp
  /\ events' = events \cup {[ev |-> "raised", g |-> t.g, kind |-> t.kind]}
  /\ UNCHANGED <<clicks, sessionVars, dbVars, guildRoles, guildChannels,
                 legacy_points, counterVars, transcripts, net, credits,
                 closeRoster>>

\* ------------------------------------------------------ `!mypoints`
\* `!mypoints` arrives: check_my_points suspends in db.get_user_points.
MyPointsCmd(g, a) ==
  /\ Invoke("mypoints", [CommandTask("mypoints", g, a, a, 0) EXCEPT !.pc = "get"])
  /\ UNCHANGED <<commandFrame, fails, user_points, legacy_points>>

\* get_user_points returns; the legacy balance is added; the command suspends
\* in ctx.send.
MyPointsGet(t) ==
  /\ t.kind = "mypoints" /\ t.pc = "get"
  /\ tasks' = Replace(t, [t EXCEPT !.cur = total_points(t.g, t.actor), !.pc = "send"])
  /\ resp' = NoResp
  /\ UNCHANGED <<commandFrame, clicks, fails, user_points, legacy_points,
                 events, command_locks>>

\* "You have <total> points" is sent.
MyPointsSend(t) ==
  /\ t.kind = "mypoints" /\ t.pc = "send"
  /\ Return(t, "points", t.cur)

MyPointsFail(t) == t.kind = "mypoints" /\ Raised(t)

\* ------------------------------------------------------------ `!add`
\* `!add member amount` arrives: add_points suspends in get_admin_roles.
AddCmd(g, a, m, n) ==
  /\ Invoke("add", CommandTask("add", g, a, m, n))
  /\ UNCHANGED <<commandFrame, fails, user_points, legacy_points>>

\* get_admin_roles returns: a non-admin gets the denial, an amount <= 0 the
\* complaint; otherwise db.add_user_points is called and suspends in its
\* get_user_points.
AddAdmin(t) ==
  /\ t.kind = "add" /\ t.pc = "admin"
  /\ Goto(t, IF ~ is_admin(t.g, t.actor) THEN "deny"
             ELSE IF t.amount <= 0 THEN "bad" ELSE "get")

AddDeny(t) == t.kind = "add" /\ t.pc = "deny" /\ Return(t, "denied", 0)

AddBad(t) == t.kind = "add" /\ t.pc = "bad" /\ Return(t, "invalid", 0)

\* add_user_points: get_user_points returns the stored balance; the call
\* suspends in update_user_points.
AddGet(t) ==
  /\ t.kind = "add" /\ t.pc = "get"
  /\ tasks' = Replace(t, [t EXCEPT !.cur = user_points[t.g][t.tgt], !.pc = "put"])
  /\ resp' = NoResp
  /\ UNCHANGED <<commandFrame, clicks, fails, user_points, legacy_points,
                 events, command_locks>>

\* `legacy_points[user_id] = legacy_points.get(user_id, 0) + amount`
AddLegacy(t) == LegacySet(t.tgt, DictGet(legacy_points, t.tgt, 0) + t.amount)

\* update_user_points stores `current_points + points` and returns; the
\* amount is added to the member's legacy balance as well; add_points
\* suspends in the get_user_points of the new total.
AddPut(t) ==
  /\ t.kind = "add" /\ t.pc = "put"
  /\ user_points' = [user_points EXCEPT ![t.g][t.tgt] = t.cur + t.amount]
  /\ legacy_points' = AddLegacy(t)
  /\ tasks' = Replace(t, [t EXCEPT !.pc = "total"])
  /\ resp' = NoResp
  /\ UNCHANGED <<commandFrame, clicks, fails, events, command_locks>>

\* get_user_points returns; `total_points` is the balance plus the legacy
\* balance; the command suspends in ctx.send.
AddTotal(t) ==
  /\ t.kind = "add" /\ t.pc = "total"
  /\ tasks' = Replace(t, [t EXCEPT !.cur = total_points(t.g, t.tgt), !.pc = "send"])
  /\ resp' = NoResp
  /\ UNCHANGED <<commandFrame, clicks, fails, user_points, legacy_points,
                 events, command_locks>>

\* "Points Added ... New Total" is sent.
AddSend(t) == t.kind = "add" /\ t.pc = "send" /\ Return(t, "added", t.cur)

AddFail(t) == t.kind = "add" /\ Raised(t)

\* --------------------------------------------------------- `!remove`
\* `!remove member amount` arrives: remove_points suspends in get_admin_roles.
RemoveCmdPoints(g, a, m, n) ==
  /\ Invoke("remove", CommandTask("remove", g, a, m, n))
  /\ UNCHANGED <<commandFrame, fails, user_points, legacy_points>>

\* get_admin_roles returns: denial, complaint, or on to db.get_user_points.
RemoveAdminPoints(t) ==
  /\ t.kind = "remove" /\ t.pc = "admin"
  /\ Goto(t, IF ~ is_admin(t.g, t.actor) THEN "deny"
             ELSE IF t.amount <= 0 THEN "bad" ELSE "get")

RemoveDeny(t) == t.kind = "remove" /\ t.pc = "deny" /\ Return(t, "denied", 0)

RemoveBad(t) == t.kind = "remove" /\ t.pc = "bad" /\ Return(t, "invalid", 0)

\* get_user_points returns current_db_points; the command suspends in
\* db.set_user_points.
RemoveGet(t) ==
  /\ t.kind = "remove" /\ t.pc = "get"
  /\ tasks' = Replace(t, [t EXCEPT !.cur = user_points[t.g][t.tgt], !.pc = "set"])
  /\ resp' = NoResp
  /\ UNCHANGED <<commandFrame, clicks, fails, user_points, legacy_points,
                 events, command_locks>>

\* the lower bound left out: `current_db_points - amount`
NewDbPointsUnbounded(current, amount) == current - amount

\* `new_db_points = max(0, current_db_points - amount)`
NewDbPoints(current, amount) ==
  IF current - amount > 0 THEN current - amount ELSE 0

\* `remaining_to_remove = amount - (current_db_points - new_db_points)`
RemainingToRemove(current, amount) ==
  amount - (current - NewDbPoints(current, amount))

\* the legacy balance never touched by `!remove`
NewLegacyKept(t) == legacy_points

\* `if remaining_to_remove > 0:
\*      legacy_points[user_id] = max(0, current_legacy - remaining_to_remove)`
NewLegacy(t) ==
  IF RemainingToRemove(t.cur, t.amount) > 0
  THEN LegacySet(t.tgt,
         IF DictGet(legacy_points, t.tgt, 0) - RemainingToRemove(t.cur, t.amount) > 0
         THEN DictGet(legacy_points, t.tgt, 0) - RemainingToRemove(t.cur, t.amount)
         ELSE 0)
  ELSE legacy_points

\* set_user_points stores new_db_points and returns; what is left of the
\* amount is taken from the legacy balance; the new total is computed and
\* the command suspends in ctx.send.
RemoveSet(t) ==
  /\ t.kind = "remove" /\ t.pc = "set"
  /\ user_points' = [user_points EXCEPT ![t.g][t.tgt] = NewDbPoints(t.cur, t.amount)]
  /\ legacy_points' = NewLegacy(t)
  /\ tasks' = Replace(t, [t EXCEPT
                 !.cur = NewDbPoints(t.cur, t.amount) + DictGet(NewLegacy(t), t.tgt, 0),
                 !.pc = "send"])
  /\ resp' = NoResp
  /\ UNCHANGED <<commandFrame, clicks, fails, events, command_locks>>

\* "Points Removed ... New Total" is sent.
RemoveSend(t) == t.kind = "remove" /\ t.pc = "send" /\ Return(t, "removed", t.cur)

RemoveFailPoints(t) == t.kind = "remove" /\ Raised(t)

\* ------------------------------------------------------ `!setpoints`
\* `!setpoints member amount` arrives: set_points suspends in get_admin_roles.
SetPointsCmd(g, a, m, n) ==
  /\ Invoke("setpoints", CommandTask("setpoints", g, a, m, n))
  /\ UNCHANGED <<commandFrame, fails, user_points, legacy_points>>

\* get_admin_roles returns: denial, complaint (`amount < 0`), or on to
\* db.set_user_points.
SetPointsAdmin(t) ==
  /\ t.kind = "setpoints" /\ t.pc = "admin"
  /\ Goto(t, IF ~ is_admin(t.g, t.actor) THEN "deny"
             ELSE IF t.amount < 0 THEN "bad" ELSE "set")

SetPointsDeny(t) == t.kind = "setpoints" /\ t.pc = "deny" /\ Return(t, "denied", 0)

SetPointsBad(t) == t.kind = "setpoints" /\ t.pc = "bad" /\ Return(t, "invalid", 0)

\* set_user_points stores the amount and returns; the member's legacy
\* balance is set to 0; the command suspends in ctx.send.
SetPointsSet(t) ==
  /\ t.kind = "setpoints" /\ t.pc = "set"
  /\ user_points' = [user_points EXCEPT ![t.g][t.tgt] = t.amount]
  /\ legacy_points' = LegacySet(t.tgt, 0)
  /\ tasks' = Replace(t, [t EXCEPT !.pc = "send"])
  /\ resp' = NoResp
  /\ UNCHANGED <<commandFrame, clicks, fails, events, command_locks>>

\* "Points Set" is sent.
SetPointsSend(t) ==
  /\ t.kind = "setpoints" /\ t.pc = "send"
  /\ Return(t, "set", t.amount)

SetPointsFail(t) == t.kind = "setpoints" /\ Raised(t)

\* ----------------------------------------------------- `!removeuser`
\* `!removeuser member` arrives: remove_user suspends in get_admin_roles.
RemoveUserCmd(g, a, m) ==
  /\ Invoke("removeuser", CommandTask("removeuser", g, a, m, 0))
  /\ UNCHANGED <<commandFrame, fails, user_points, legacy_points>>

RemoveUserAdmin(t) ==
  /\ t.kind = "removeuser" /\ t.pc = "admin"
  /\ Goto(t, IF ~ is_admin(t.g, t.actor) THEN "deny" ELSE "set")

RemoveUserDeny(t) == t.kind = "removeuser" /\ t.pc = "deny" /\ Return(t, "denied", 0)

\* set_user_points(member, 0) returns; the member's legacy entry is deleted
\* when there is one; the command suspends in ctx.send.
RemoveUserSet(t) ==
  /\ t.kind = "removeuser" /\ t.pc = "set"
  /\ user_points' = [user_points EXCEPT ![t.g][t.tgt] = 0]
  /\ legacy_points' = LegacyDel(t.tgt)
  /\ tasks' = Replace(t, [t EXCEPT !.pc = "send"])
  /\ resp' = NoResp
  /\ UNCHANGED <<commandFrame, clicks, fails, events, command_locks>>

\* "<member> was removed from the leaderboard" is sent.
RemoveUserSend(t) ==
  /\ t.kind = "removeuser" /\ t.pc = "send"
  /\ Return(t, "removed", 0)

RemoveUserFail(t) == t.kind = "removeuser" /\ Raised(t)

\* --------------------------------------------- `!restartleaderboard`
\* `!restartleaderboard` arrives: restart_leaderboard suspends in
\* get_admin_roles.
RestartCmd(g, a) ==
  /\ Invoke("restartleaderboard", CommandTask("restartleaderboard", g, a, NoId, 0))
  /\ UNCHANGED <<commandFrame, fails, user_points, legacy_points>>

RestartAdmin(t) ==
  /\ t.kind = "restartleaderboard" /\ t.pc = "admin"
  /\ Goto(t, IF ~ is_admin(t.g, t.actor) THEN "deny" ELSE "ask")

RestartDeny(t) ==
  /\ t.kind = "restartleaderboard" /\ t.pc = "deny"
  /\ Return(t, "denied", 0)

\* "Are you sure you want to RESET the leaderboard?" is sent; the command
\* suspends in `bot.wait_for('message', timeout=30.0)`.
RestartAsk(t) ==
  /\ t.kind = "restartleaderboard" /\ t.pc = "ask"
  /\ tasks' = Replace(t, [t EXCEPT !.pc = "wait"])
  /\ resp' = RespAbout(0, t.actor, "restartleaderboard", "confirm?", NoId)
  /\ UNCHANGED <<commandFrame, clicks, fails, user_points, legacy_points,
                 events, command_locks>>

\* wait_for times out: `except asyncio.TimeoutError` suspends in the ctx.send
\* of "Confirmation timed out".
RestartTimeout(t) ==
  /\ t.kind = "restartleaderboard" /\ t.pc = "wait"
  /\ Goto(t, "timedout")

\* "Confirmation timed out. Leaderboard was not reset." is sent.
RestartTimedOut(t) ==
  /\ t.kind = "restartleaderboard" /\ t.pc = "timedout"
  /\ Return(t, "timedout", 0)

\* The author types `confirm`: `db.clear_all_points` is looked up, and
\* DatabaseManager has no such method.  The AttributeError leaves
\* restart_leaderboard; `finally` releases the lock; nothing is reset and
\* nothing is sent.
RestartConfirm(t) ==
  /\ t.kind = "restartleaderboard" /\ t.pc = "wait"
  /\ tasks' = Finish(t)
  /\ Release(t)
  /\ resp' = NoResp
  /\ events' = events \cup {[ev |-> "confirmed", g |-> t.g, kind |-> t.kind]}
  /\ UNCHANGED <<commandFrame, clicks, fails, user_points, legacy_points>>

RestartFail(t) ==
  /\ t.kind = "restartleaderboard" /\ t.pc # "wait"
  /\ Raised(t)

\* ------------------------------------ check_and_reset_ticket_numbers
\* `for channel in ticket_category.text_channels:
\*    if channel.name.startswith(category_name + "-")` and the name ends in a
\* number: the channels on_submit created for the category that still exist.
ExistingTickets(c) ==
  {s \in Sessions : chan[s] \in {"created", "open"} /\ chanName[s] = c}

\* check_and_reset_ticket_numbers(guild, category) is called: it suspends in
\* `await get_server_config`.
ResetCheck(c) ==
  /\ InFlight < MaxInFlight
  /\ ~ \E t \in BagToSet(tasks) : t.kind = "resetcheck"
  /\ tasks' = Spawn([Task("resetcheck", 0, NoId, "cfg") EXCEPT !.tgt = c])
  /\ resp' = NoResp
  /\ UNCHANGED <<clicks, sessionVars, dbVars, guildRoles, guildChannels, legacy_points, events,
                 command_locks, counterVars, ghostVars>>

\* get_server_config returns: without a row, a ticket category or a category
\* that resolves the function returns; otherwise the channels are scanned,
\* and when none belongs to the category the function suspends in
\* `await db.reset_ticket_number`.
ResetScan(t) ==
  /\ t.kind = "resetcheck" /\ t.pc = "cfg"
  /\ GetServerConfigEffect
  /\ tasks' = IF /\ config.present
                 /\ config.ticket_category_id # NoId
                 /\ config.ticket_category_id \in guildChannels
                 /\ ExistingTickets(t.tgt) = {}
              THEN Replace(t, [t EXCEPT !.pc = "write"])
              ELSE Finish(t)
  /\ resp' = NoResp
  /\ UNCHANGED <<clicks, sessionVars, config, admin_roles, user_points,
                 guildRoles, guildChannels, legacy_points, events, command_locks, counterVars,
                 ghostVars>>

\* DatabaseManager.reset_ticket_number: the upsert stores 0.
ResetWrite(t) ==
  /\ t.kind = "resetcheck" /\ t.pc = "write"
  /\ ticket_numbers' = [ticket_numbers EXCEPT ![t.g][t.tgt] = 0]
  /\ tasks' = Finish(t)
  /\ resp' = NoResp
  /\ UNCHANGED <<clicks, sessionVars, dbVars, guildRoles, guildChannels, legacy_points, events,
                 command_locks, calls, returned, ghostVars>>

\* get_server_config or reset_ticket_number raises: the function has no
\* handler, the error goes to its caller.
ResetFail(t) ==
  /\ t.kind = "resetcheck"
  /\ Raise(FALSE)
  /\ tasks' = Finish(t)
  /\ resp' = NoResp
  /\ UNCHANGED <<clicks, sessionVars, dbVars, guildRoles, guildChannels, legacy_points, events,
                 command_locks, counterVars, transcripts, net, credits,
                 closeRoster>>

\* ------------------------------------- DatabaseManager.reset_ticket_number
\* the reset applied to every category of the guild
ResetTicketNumberAllCategories(g, c) ==
  /\ ticket_numbers' = [ticket_numbers EXCEPT
                          ![g] = [d \in DOMAIN ticket_numbers[g] |-> 0]]
  /\ resp' = NoResp
  /\ UNCHANGED <<clicks, sessionVars, tasks, dbVars, guildRoles, guildChannels,
                 legacy_points, events, command_locks, calls, returned,
                 ghostVars>>

\* reset_ticket_number(guild_id, category): the upsert stores 0 in the row of
\* (guild_id, category) and is committed.
ResetTicketNumber(g, c) ==
  /\ ticket_numbers' = [ticket_numbers EXCEPT ![g][c] = 0]
  /\ resp' = NoResp
  /\ UNCHANGED <<clicks, sessionVars, tasks, dbVars, guildRoles, guildChannels,
                 legacy_points, events, command_locks, calls, returned,
                 ghostVars>>

\* ------------------- RoleSelect.callback, ChannelSelect.callback (`!setup`)
\* the columns of server_configs the setup menus write
ConfigFields == {"helper_role_id", "blocked_role_id", "ticket_category_id",
                 "transcript_channel_id"}

\* `int(self.values[0])`: the role or channel picked in the menu of a column
SelectedValue(field) ==
  CASE field = "helper_role_id"        -> HelperRole
    [] field = "blocked_role_id"       -> BlockedRole
    [] field = "ticket_category_id"    -> TicketCategory
    [] OTHER                           -> TranscriptChannel

\* An option of a setup menu is picked: the callback calls
\* db.update_server_config(guild, <field>=<value>), which suspends in
\* `await self.get_server_config(guild_id)`.
SetupSelect(a, field) ==
  /\ Press
  /\ InFlight < MaxInFlight
  /\ tasks' = Spawn([Task("setup", 0, a, "read") EXCEPT !.tgt = field])
  /\ resp' = NoResp
  /\ UNCHANGED <<sessionVars, dbVars, guildRoles, guildChannels, legacy_points,
                 events, command_locks, counterVars, ghostVars>>

\* get_server_config returns the row or None; update_server_config suspends
\* in the execute of the UPDATE or of the INSERT it has chosen.
SetupRead(t) ==
  /\ t.kind = "setup" /\ t.pc = "read"
  /\ tasks' = Replace(t, [t EXCEPT !.i = IF config.present THEN 1 ELSE 0,
                                   !.pc = "write"])
  /\ resp' = NoResp
  /\ UNCHANGED <<clicks, sessionVars, dbVars, guildRoles, guildChannels,
                 legacy_points, events, command_locks, counterVars, ghostVars>>

\* `UPDATE server_configs SET <field> = ? WHERE guild_id = ?`
ConfigUpdate(field) == [config EXCEPT ![field] = SelectedValue(field)]

\* `INSERT INTO server_configs (guild_id, <field>) VALUES (?, ?)`: the other
\* columns of the new row are NULL
ConfigInsert(field) ==
  [NoConfig EXCEPT !.present = TRUE, ![field] = SelectedValue(field)]

\* The statement runs and is committed.  The UPDATE sets the column of the
\* guild's row.  The INSERT adds the row, unless a row of the guild has been
\* added since the read: guild_id is the primary key, the INSERT fails with
\* an IntegrityError, which nothing in the callback handles.
SetupWrite(t) ==
  /\ t.kind = "setup" /\ t.pc = "write"
  /\ resp' = NoResp
  /\ IF t.i = 1
     THEN /\ config' = ConfigUpdate(t.tgt)
          /\ tasks' = Replace(t, [t EXCEPT !.pc = "send"])
          /\ UNCHANGED events
     ELSE IF ~ config.present
     THEN /\ config' = ConfigInsert(t.tgt)
          /\ tasks' = Replace(t, [t EXCEPT !.pc = "send"])
          /\ UNCHANGED events
     ELSE /\ tasks' = Finish(t)
          /\ events' = events \cup {[ev |-> "raised", g |-> t.g, kind |-> "setup"]}
          /\ UNCHANGED config
  /\ UNCHANGED <<clicks, sessionVars, point_values, helper_slots, custom_rules,
                 admin_roles, user_points, guildRoles, guildChannels,
                 legacy_points, command_locks, counterVars, ghostVars>>

\* "<field> set to <value>" is sent to the member, ephemerally.
SetupSend(t) ==
  /\ t.kind = "setup" /\ t.pc = "send"
  /\ tasks' = Finish(t)
  /\ resp' = RespAbout(0, t.actor, "setup", "set", t.tgt)
  /\ UNCHANGED <<clicks, sessionVars, dbVars, guildRoles, guildChannels,
                 legacy_points, events, command_locks, counterVars, ghostVars>>

\* An awaited call of the callback raises: nothing in it handles the error.
SetupFail(t) ==
  /\ t.kind = "setup"
  /\ Raise(FALSE)
  /\ tasks' = Finish(t)
  /\ resp' = NoResp
  /\ UNCHANGED <<clicks, sessionVars, dbVars, guildRoles, guildChannels,
                 legacy_points, events, command_locks, counterVars,
                 transcripts, net, credits, closeRoster>>

\* ------------------------------------- DatabaseManager catalog accessors
\* DatabaseManager.set_point_values: the guild's rows are deleted and the
\* rows of the given dict inserted, in one transaction.
SetPointValues(pv) ==
  /\ point_values # pv
  /\ point_values' = pv
  /\ resp' = NoResp
  /\ UNCHANGED <<clicks, sessionVars, tasks, config, helper_slots, custom_rules,
                 admin_roles, user_points, guildRoles, guildChannels, legacy_points, events,
                 command_locks, counterVars, ghostVars>>

\* DatabaseManager.set_helper_slots: the same for the helper-slot rows.
SetHelperSlots(hs) ==
  /\ helper_slots # hs
  /\ helper_slots' = hs
  /\ resp' = NoResp
  /\ UNCHANGED <<clicks, sessionVars, tasks, config, point_values, custom_rules,
                 admin_roles, user_points, guildRoles, guildChannels, legacy_points, events,
                 command_locks, counterVars, ghostVars>>

\* ------------------------------------------------------ specifications
\* Join and leave callbacks only, overlapping freely.
NextRoster ==
  \/ \E s \in Sessions, a \in Users : JoinClick(s, a) \/ LeaveClick(s, a)
  \/ \E t \in BagToSet(tasks) :
       JoinConfig(t) \/ JoinEdit(t) \/ JoinFail(t) \/ LeaveEdit(t) \/ LeaveFail(t)
  \/ \E r \in {HelperRole} : DeleteRole(r)

SpecRoster == Init /\ [][NextRoster]_vars

\* Join and leave callbacks one after the other: a button is pressed only
\* when no callback is suspended.
NextSeq ==
  \/ /\ InFlight = 0
     /\ \E s \in Sessions, a \in Users : JoinClick(s, a) \/ LeaveClick(s, a)
  \/ \E t \in BagToSet(tasks) :
       JoinConfig(t) \/ JoinEdit(t) \/ JoinFail(t) \/ LeaveEdit(t) \/ LeaveFail(t)
  \/ \E r \in {HelperRole} : DeleteRole(r)

SpecSeq == Init /\ [][NextSeq]_vars

\* Join, leave and Remove Helper callbacks, overlapping freely.
NextRemove ==
  \/ \E s \in Sessions, a \in Users :
       JoinClick(s, a) \/ LeaveClick(s, a) \/ RemoveClick(s, a)
  \/ \E t \in BagToSet(tasks) :
       \/ JoinConfig(t) \/ JoinEdit(t) \/ JoinFail(t)
       \/ LeaveEdit(t) \/ LeaveFail(t)
       \/ RemoveAdmin(t) \/ RemoveMenu(t) \/ RemoveTimeout(t) \/ RemoveFail(t)
       \/ \E v \in Users : RemoveSelect(t, v)

\* Ticket creation in a guild without sessions, whose setup stored any
\* combination of a blocked role and a ticket category, or nothing at all.
CreateConfigRows ==
  [present : {TRUE}, helper_role_id : {HelperRole},
   transcript_channel_id : {NoId},
   blocked_role_id : {NoId, BlockedRole},
   ticket_category_id : {NoId, TicketCategory}]

InitCreate ==
  /\ InitIdle
  /\ config \in {NoConfig} \cup CreateConfigRows
  /\ point_values = EmptyDict
  /\ helper_slots = [c \in SessionCategories |-> MaxSlots]
  /\ custom_rules = {}
  /\ admin_roles = {AdminRole}
  /\ guildRoles = RoleIds
  /\ guildChannels = ChannelIds
  /\ user_points = [g \in GuildIds |-> [u \in Users |-> 0]]
  /\ helpers = [s \in Sessions |-> <<>>]
  /\ slots = [s \in Sessions |-> MaxSlots]
  /\ display = [s \in Sessions |-> EmptyLines(MaxSlots)]
  /\ category = [s \in Sessions |-> "Grim Express"]
  /\ chan = [s \in Sessions |-> "none"]
  /\ owner = [s \in Sessions |-> NoId]
  /\ InitTicketMessage

NextCreate ==
  \/ \E a \in Users, c \in SessionCategories : CreateSubmit(a, c)
  \/ \E t \in BagToSet(tasks) :
       \/ CreateConfig(t) \/ CreateAdmin(t) \/ CreateNumberSelect(t)
       \/ CreateNumberUpsert(t) \/ CreateChannel(t) \/ CreateSlots(t)
       \/ CreatePoints(t) \/ CreateSend(t) \/ CreateDone(t) \/ CreateFail(t)
  \/ \E r \in {BlockedRole} : DeleteRole(r)
  \/ \E c \in {TicketCategory} : DeleteChannel(c)

SpecCreate == InitCreate /\ [][NextCreate]_vars

\* One session whose close callbacks overlap with join and leave callbacks.
\* The event loop resumes every suspended callback whose awaited call has
\* returned, so the steps of a close that do not raise are taken fairly.
InitLive ==
  /\ Init
  /\ config = [present |-> TRUE, helper_role_id |-> NoId,
               transcript_channel_id |-> TranscriptChannel,
               blocked_role_id |-> NoId, ticket_category_id |-> TicketCategory]

CloseProgress(t) ==
  \/ CloseAdmin(t) \/ CloseHeader(t) \/ CloseHistory(t) \/ CloseConfig(t)
  \/ CloseSend(t) \/ ClosePointValues(t) \/ CloseGetPoints(t)
  \/ CloseUpdatePoints(t) \/ CloseSleep(t) \/ CloseDelete(t)

\* the members who press buttons here: the helper A and the admin B
LiveActors == {"A", "B"}

\* Only calls of a close raise here.
NextLive ==
  \/ \E s \in Sessions, a \in LiveActors :
       JoinClick(s, a) \/ LeaveClick(s, a) \/ CloseClick(s, a)
  \/ \E t \in BagToSet(tasks) :
       \/ JoinConfig(t) \/ JoinEdit(t) \/ LeaveEdit(t)
       \/ CloseProgress(t) \/ CloseFail(t)

SpecLive ==
  /\ InitLive /\ [][NextLive]_vars
  /\ WF_vars(\E t \in BagToSet(tasks) : CloseProgress(t))

\* Join and leave callbacks and the !removehelper command; the ticket
\* category may be deleted.
NextCommand ==
  \/ \E s \in Sessions, a \in Users : JoinClick(s, a) \/ LeaveClick(s, a)
  \/ \E a \in Users, u \in Users : RemoveCmd(a, u)
  \/ \E t \in BagToSet(tasks) :
       \/ JoinConfig(t) \/ JoinEdit(t) \/ JoinFail(t)
       \/ LeaveEdit(t) \/ LeaveFail(t)
       \/ CmdAdmin(t) \/ CmdConfig(t) \/ CmdHistory(t) \/ CmdEdit(t)
       \/ CmdNotify(t) \/ CmdReport(t) \/ CmdFail(t)
  \/ \E c \in {TicketCategory} : DeleteChannel(c)

SpecCommand == Init /\ [][NextCommand]_vars

\* the transcript destination plays no part in these callbacks
InitRemove == Init /\ config.transcript_channel_id = NoId

SpecRemove == InitRemove /\ [][NextRemove]_vars

\* Two open sessions of the same guild whose rosters share helpers; only
\* close callbacks run.
InitLedger ==
  /\ InitDb
  /\ InitIdle
  /\ helpers = [s \in Sessions |-> IF s = 1 THEN <<"A", "C">> ELSE <<"A">>]
  /\ slots = [s \in Sessions |-> MaxSlots]
  /\ display = [s \in Sessions |-> EmptyLines(MaxSlots)]
  /\ category = [s \in Sessions |-> IF s = 1 THEN "Grim Express"
                                    ELSE "Ultra Speaker Express"]
  /\ chan = [s \in Sessions |-> "open"]
  /\ owner = [s \in Sessions |-> "C"]
  /\ InitTicketMessage

NextLedger ==
  \/ \E s \in Sessions, a \in Users : CloseClick(s, a)
  \/ \E t \in BagToSet(tasks) :
       \/ CloseAdmin(t) \/ CloseHeader(t) \/ CloseHistory(t) \/ CloseConfig(t)
       \/ CloseSend(t) \/ ClosePointValues(t) \/ CloseGetPoints(t)
       \/ CloseUpdatePoints(t) \/ CloseSleep(t) \/ CloseDelete(t)
       \/ CloseFail(t)

SpecLedger == InitLedger /\ [][NextLedger]_vars

\* Calls of get_next_ticket_number on counters that start at 0.
InitCounter ==
  /\ InitDb /\ config = NoConfig
  /\ InitIdle
  /\ helpers = [s \in Sessions |-> <<>>]
  /\ slots = [s \in Sessions |-> MaxSlots]
  /\ display = [s \in Sessions |-> EmptyLines(MaxSlots)]
  /\ category = [s \in Sessions |-> "Grim Express"]
  /\ chan = [s \in Sessions |-> "none"]
  /\ owner = [s \in Sessions |-> NoId]
  /\ InitTicketMessage

NextCounter ==
  \/ \E c \in CounterCategories : NextNumberCall(ThisGuild, c)
  \/ \E k \in BagToSet(calls) : NextNumberSelect(k) \/ NextNumberUpsert(k)

SpecCounter == InitCounter /\ [][NextCounter]_vars


\* Ticket creation in a guild that has no sessions and no stored catalog:
\* either nothing was set up, or the setup stored a ticket category.  The
\* modal is submitted for any of the built-in categories.
AllCategories == DOMAIN DEFAULT_POINT_VALUES

FreshRow ==
  [present |-> TRUE, helper_role_id |-> HelperRole,
   transcript_channel_id |-> NoId, blocked_role_id |-> NoId,
   ticket_category_id |-> TicketCategory]

\* the member who requests tickets here
FreshActors == {"A"}

InitFresh ==
  /\ config \in {NoConfig, FreshRow}
  /\ point_values = EmptyDict
  /\ helper_slots = EmptyDict
  /\ custom_rules = {}
  /\ admin_roles = {AdminRole}
  /\ guildRoles = RoleIds
  /\ guildChannels = ChannelIds
  /\ user_points = [g \in GuildIds |-> [u \in Users |-> 0]]
  /\ tasks = EmptyBag
  /\ ticket_numbers = [g \in GuildIds |-> [c \in AllCategories |-> 0]]
  /\ calls = EmptyBag
  /\ returned = <<>>
  /\ resp = NoResp
  /\ transcripts = [s \in Sessions |-> {}]
  /\ net = [s \in Sessions |-> 0]
  /\ credits = [s \in Sessions |-> [u \in Users |-> 0]]
  /\ closeRoster = [s \in Sessions |-> <<>>]
  /\ fails = 0
  /\ clicks = 0
  /\ command_locks = {}
  /\ legacy_points = EmptyDict
  /\ events = {}
  /\ helpers = [s \in Sessions |-> <<>>]
  /\ slots = [s \in Sessions |-> 0]
  /\ display = [s \in Sessions |-> <<>>]
  /\ category = [s \in Sessions |-> NoId]
  /\ chan = [s \in Sessions |-> "none"]
  /\ owner = [s \in Sessions |-> NoId]
  /\ InitTicketMessage

NextFresh ==
  \/ \E a \in FreshActors, c \in AllCategories : CreateSubmit(a, c)
  \/ \E t \in BagToSet(tasks) :
       \/ CreateConfig(t) \/ CreateAdmin(t) \/ CreateNumberSelect(t)
       \/ CreateNumberUpsert(t) \/ CreateChannel(t) \/ CreateSlots(t)
       \/ CreatePoints(t) \/ CreateSend(t) \/ CreateDone(t) \/ CreateFail(t)

SpecFresh == InitFresh /\ [][NextFresh]_vars


\* One open session whose joins and leaves run one after the other while
\* the guild's helper-slot catalog is rewritten.
HelperSlotCatalogs ==
  {[c \in SessionCategories |-> 1], [c \in SessionCategories |-> MaxSlots + 1]}

NextSlots ==
  \/ /\ InFlight = 0
     /\ \E s \in Sessions, a \in Users : JoinClick(s, a) \/ LeaveClick(s, a)
  \/ \E t \in BagToSet(tasks) : JoinConfig(t) \/ JoinEdit(t) \/ LeaveEdit(t)
  \/ \E hs \in HelperSlotCatalogs : SetHelperSlots(hs)

SpecSlots == Init /\ [][NextSlots]_vars

\* Two open sessions that are closed while the guild's point values are
\* rewritten.
PointValueCatalogs ==
  {[c \in AllCategories |-> DEFAULT_POINT_VALUES[c] + 1]}

NextAward ==
  \/ \E s \in Sessions, a \in Users : CloseClick(s, a)
  \/ \E t \in BagToSet(tasks) :
       \/ CloseAdmin(t) \/ CloseHeader(t) \/ CloseHistory(t) \/ CloseConfig(t)
       \/ CloseSend(t) \/ ClosePointValues(t) \/ CloseGetPoints(t)
       \/ CloseUpdatePoints(t) \/ CloseSleep(t) \/ CloseDelete(t)
       \/ CloseFail(t)
  \/ \E pv \in PointValueCatalogs : SetPointValues(pv)

SpecAward == InitLedger /\ [][NextAward]_vars

\* Closes of one session with two helpers on its roster, in a guild without
\* a transcript destination: no server_configs row, or a row whose transcript
\* channel is not set.  The steps of a close that do not raise are taken
\* fairly.
InitQuiet ==
  /\ InitDb
  /\ ~ (config.present /\ config.transcript_channel_id # NoId)
  /\ config.helper_role_id = NoId
  /\ InitIdle
  /\ helpers = [s \in Sessions |-> IF s = 1 THEN <<"A", "C">> ELSE <<>>]
  /\ slots = [s \in Sessions |-> MaxSlots]
  /\ display = [s \in Sessions |-> IF s = 1 THEN <<"A", "C">>
                                    ELSE EmptyLines(MaxSlots)]
  /\ category = [s \in Sessions |-> "Grim Express"]
  /\ chan = [s \in Sessions |-> IF s = 1 THEN "open" ELSE "none"]
  /\ owner = [s \in Sessions |-> IF s = 1 THEN "C" ELSE NoId]
  /\ InitTicketMessage

NextQuiet ==
  \/ \E s \in Sessions, a \in LiveActors : CloseClick(s, a)
  \/ \E t \in BagToSet(tasks) : CloseProgress(t) \/ CloseFail(t)

SpecQuiet ==
  /\ InitQuiet /\ [][NextQuiet]_vars
  /\ WF_vars(\E t \in BagToSet(tasks) : CloseProgress(t))

\* Closes of one session whose channel holds fewer messages than the history
\* limit, exactly as many, or more; the guild has a transcript destination.
MessageCounts == {1, HistoryLimit - 1, HistoryLimit, HistoryLimit + 1,
                  HistoryLimit + 30}

InitTranscript ==
  /\ InitDb
  /\ config.present /\ config.transcript_channel_id # NoId
  /\ InitIdle
  /\ helpers = [s \in Sessions |-> IF s = 1 THEN <<"A">> ELSE <<>>]
  /\ slots = [s \in Sessions |-> MaxSlots]
  /\ display = [s \in Sessions |-> IF s = 1 THEN <<"A", Empty>>
                                    ELSE EmptyLines(MaxSlots)]
  /\ category = [s \in Sessions |-> "Grim Express"]
  /\ chan = [s \in Sessions |-> IF s = 1 THEN "open" ELSE "none"]
  /\ owner = [s \in Sessions |-> IF s = 1 THEN "C" ELSE NoId]
  /\ reward = [s \in Sessions |->
                 IF s = 1 THEN DictGet(get_point_values, category[s], 0) ELSE 0]
  /\ chanName = [s \in Sessions |-> IF s = 1 THEN category[s] ELSE NoId]
  /\ \E n \in MessageCounts :
       messages = [s \in Sessions |-> IF s = 1 THEN n ELSE 0]

SpecTranscript == InitTranscript /\ [][NextLedger]_vars

\* Join and leave callbacks none of whose calls raises.  Joins overlap with
\* anything; Leave is pressed only while no callback is suspended.
NextDisplay ==
  \/ \E s \in Sessions, a \in Users : JoinClick(s, a)
  \/ /\ InFlight = 0
     /\ \E s \in Sessions, a \in Users : LeaveClick(s, a)
  \/ \E t \in BagToSet(tasks) : JoinConfig(t) \/ JoinEdit(t) \/ LeaveEdit(t)

SpecDisplay == Init /\ [][NextDisplay]_vars

\* Invocations of `!resetpoints`, with and without a member, by any member,
\* next to joins and leaves on the open session.
NextLock ==
  \/ \E a \in Users, m \in {"A", NoId} : ResetPointsCmd(ThisGuild, a, m)
  \/ \E s \in Sessions, a \in Users : JoinClick(s, a) \/ LeaveClick(s, a)
  \/ \E t \in BagToSet(tasks) :
       \/ ResetPointsAdmin(t) \/ ResetPointsDeny(t) \/ ResetPointsSet(t)
       \/ ResetPointsDone(t) \/ ResetPointsAsk(t) \/ ResetPointsTimeout(t)
       \/ ResetPointsTimedOut(t) \/ ResetPointsConfirm(t) \/ ResetPointsFail(t)
       \/ JoinConfig(t) \/ JoinEdit(t) \/ JoinFail(t)
       \/ LeaveEdit(t) \/ LeaveFail(t)

SpecLock == Init /\ [][NextLock]_vars

\* Ticket creation next to calls of check_and_reset_ticket_numbers.
NextReset ==
  \/ \E a \in Users, c \in SessionCategories : CreateSubmit(a, c)
  \/ \E c \in SessionCategories : ResetCheck(c)
  \/ \E t \in BagToSet(tasks) :
       \/ CreateConfig(t) \/ CreateAdmin(t) \/ CreateNumberSelect(t)
       \/ CreateNumberUpsert(t) \/ CreateChannel(t) \/ CreateSlots(t)
       \/ CreatePoints(t) \/ CreateSend(t) \/ CreateDone(t) \/ CreateFail(t)
       \/ ResetScan(t) \/ ResetWrite(t) \/ ResetFail(t)

SpecReset == InitCreate /\ [][NextReset]_vars

\* The bot at rest: nothing is suspended, nothing has been sent, no lock is
\* held.  The server_configs row, the sessions and the tables of balances
\* and counters are left to the scenario.
InitBot ==
  /\ point_values = EmptyDict
  /\ helper_slots = [c \in SessionCategories |-> MaxSlots]
  /\ custom_rules = {}
  /\ admin_roles = {AdminRole}
  /\ guildRoles = RoleIds
  /\ guildChannels = ChannelIds
  /\ tasks = EmptyBag
  /\ calls = EmptyBag
  /\ returned = <<>>
  /\ resp = NoResp
  /\ transcripts = [s \in Sessions |-> {}]
  /\ net = [s \in Sessions |-> 0]
  /\ credits = [s \in Sessions |-> [u \in Users |-> 0]]
  /\ closeRoster = [s \in Sessions |-> <<>>]
  /\ fails = 0
  /\ clicks = 0
  /\ command_locks = {}
  /\ events = {}

\* no ticket has been created
NoSessions ==
  /\ helpers = [s \in Sessions |-> <<>>]
  /\ slots = [s \in Sessions |-> 0]
  /\ display = [s \in Sessions |-> <<>>]
  /\ category = [s \in Sessions |-> "Grim Express"]
  /\ chan = [s \in Sessions |-> "none"]
  /\ owner = [s \in Sessions |-> NoId]
  /\ InitTicketMessage

\* one ticket of member C is open, with the given helpers on its roster
OneSession(roster) ==
  /\ helpers = [s \in Sessions |-> IF s = 1 THEN roster ELSE <<>>]
  /\ slots = [s \in Sessions |-> MaxSlots]
  /\ display = [s \in Sessions |->
                  IF s = 1 THEN [i \in 1..MaxSlots |->
                                   IF i <= Len(roster) THEN roster[i] ELSE Empty]
                  ELSE EmptyLines(MaxSlots)]
  /\ category = [s \in Sessions |-> "Grim Express"]
  /\ chan = [s \in Sessions |-> IF s = 1 THEN "open" ELSE "none"]
  /\ owner = [s \in Sessions |-> IF s = 1 THEN "C" ELSE NoId]
  /\ InitTicketMessage

\* a row of server_configs without a transcript channel and a helper role
QuietConfig == [NoConfig EXCEPT !.present = TRUE,
                                !.ticket_category_id = TicketCategory]

\* A guild without sessions.
InitPlain ==
  /\ InitBot
  /\ config \in ConfigRows
  /\ NoSessions

\* Counters that tickets have already been numbered from, in two guilds (the
\* one of "Grim Express" in the first guild once or four times, the others
\* four times); calls of get_next_ticket_number and of reset_ticket_number
\* follow one another on each counter, and overlap freely across counters.
CounterStarts ==
  {[g \in GuildIds |-> [c \in CounterCategories |->
      IF g = ThisGuild /\ c = "Grim Express" THEN n ELSE 4]] : n \in {1, 4}}

InitCounterReset ==
  /\ InitPlain
  /\ user_points = [g \in GuildIds |-> [u \in Users |-> 0]]
  /\ legacy_points = EmptyDict
  /\ ticket_numbers \in CounterStarts

CounterIdle(g, c) == ~ \E k \in BagToSet(calls) : k.g = g /\ k.cat = c

NextCounterReset ==
  \/ \E g \in GuildIds, c \in CounterCategories :
       CounterIdle(g, c) /\ NextNumberCall(g, c)
  \/ \E g \in GuildIds, c \in CounterCategories :
       CounterIdle(g, c) /\ ticket_numbers[g][c] # 0 /\ ResetTicketNumber(g, c)
  \/ \E k \in BagToSet(calls) : NextNumberSelect(k) \/ NextNumberUpsert(k)

SpecCounterReset == InitCounterReset /\ [][NextCounterReset]_vars

\* One open session with helper A on its roster, in a guild without a
\* transcript destination.  Admin B closes the session and types points
\* commands about A with any of the amounts, one command after the other;
\* the closes and the commands overlap freely.
InitBalances ==
  /\ InitBot
  /\ config = QuietConfig
  /\ OneSession(<<"A">>)
  /\ user_points = [g \in GuildIds |-> [u \in Users |-> 0]]
  /\ legacy_points = EmptyDict
  /\ ticket_numbers = [g \in GuildIds |-> [c \in CounterCategories |-> 0]]

PointsAdmins == {"B"}
PointsMembers == {"A"}

\* no points command is suspended
NoCommand == \A t \in BagToSet(tasks) : t.kind = "close"

NextBalances ==
  \/ \E s \in {1}, a \in PointsAdmins : CloseClick(s, a)
  \/ \E a \in PointsAdmins, m \in PointsMembers, n \in Amounts :
       NoCommand /\ AddCmd(ThisGuild, a, m, n)
  \/ \E a \in PointsAdmins, m \in PointsMembers, n \in Amounts :
       NoCommand /\ RemoveCmdPoints(ThisGuild, a, m, n)
  \/ \E a \in PointsAdmins, m \in PointsMembers, n \in Amounts :
       NoCommand /\ SetPointsCmd(ThisGuild, a, m, n)
  \/ \E a \in PointsAdmins, m \in PointsMembers :
       NoCommand /\ ResetPointsCmd(ThisGuild, a, m)
  \/ \E a \in PointsAdmins, m \in PointsMembers :
       NoCommand /\ RemoveUserCmd(ThisGuild, a, m)
  \/ \E t \in BagToSet(tasks) :
       \/ CloseProgress(t)
       \/ AddAdmin(t) \/ AddBad(t) \/ AddGet(t) \/ AddPut(t) \/ AddTotal(t)
       \/ AddSend(t)
       \/ RemoveAdminPoints(t) \/ RemoveBad(t) \/ RemoveGet(t) \/ RemoveSet(t)
       \/ RemoveSend(t)
       \/ SetPointsAdmin(t) \/ SetPointsBad(t) \/ SetPointsSet(t)
       \/ SetPointsSend(t)
       \/ ResetPointsAdmin(t) \/ ResetPointsSet(t) \/ ResetPointsDone(t)
       \/ RemoveUserAdmin(t) \/ RemoveUserSet(t) \/ RemoveUserSend(t)

SpecBalances == InitBalances /\ [][NextBalances]_vars

\* Balances that are stored when the commands arrive: members of both guilds
\* have points in the table, and points.json held a legacy balance for A.
StoredPoints ==
  [g \in GuildIds |-> [u \in Users |-> IF u = "A" THEN 2
                                        ELSE IF g = ThisGuild THEN 1 ELSE 0]]

StoredLegacy == [u \in {"A"} |-> 3]

InitStored ==
  /\ InitBot
  /\ config = QuietConfig
  /\ NoSessions
  /\ user_points = StoredPoints
  /\ legacy_points \in {EmptyDict, StoredLegacy}
  /\ ticket_numbers = [g \in GuildIds |-> [c \in CounterCategories |-> 0]]

\* `!resetpoints` without a member and `!restartleaderboard`, typed by the
\* helper A and the admin B; the wait for `confirm` ends either way, and any
\* awaited call may raise.
NextConfirm ==
  \/ \E a \in LiveActors : ResetPointsCmd(ThisGuild, a, NoId)
  \/ \E a \in LiveActors : RestartCmd(ThisGuild, a)
  \/ \E t \in BagToSet(tasks) :
       \/ ResetPointsAdmin(t) \/ ResetPointsDeny(t) \/ ResetPointsAsk(t)
       \/ ResetPointsTimeout(t) \/ ResetPointsTimedOut(t)
       \/ ResetPointsConfirm(t) \/ ResetPointsFail(t)
       \/ RestartAdmin(t) \/ RestartDeny(t) \/ RestartAsk(t)
       \/ RestartTimeout(t) \/ RestartTimedOut(t) \/ RestartConfirm(t)
       \/ RestartFail(t)

SpecConfirm == InitStored /\ [][NextConfirm]_vars

\* The points commands typed by admin B about member A in either guild, and
\* `!mypoints` typed by A in either guild; the commands overlap freely.
NextGuilds ==
  \/ \E g \in GuildIds : MyPointsCmd(g, "A")
  \/ \E g \in GuildIds, n \in {1, 2} : AddCmd(g, "B", "A", n)
  \/ \E g \in GuildIds, n \in {1, 2} : RemoveCmdPoints(g, "B", "A", n)
  \/ \E g \in GuildIds, n \in {0, 1} : SetPointsCmd(g, "B", "A", n)
  \/ \E g \in GuildIds : ResetPointsCmd(g, "B", "A")
  \/ \E g \in GuildIds : RemoveUserCmd(g, "B", "A")
  \/ \E t \in BagToSet(tasks) :
       \/ MyPointsGet(t) \/ MyPointsSend(t)
       \/ AddAdmin(t) \/ AddGet(t) \/ AddPut(t) \/ AddTotal(t) \/ AddSend(t)
       \/ RemoveAdminPoints(t) \/ RemoveGet(t) \/ RemoveSet(t) \/ RemoveSend(t)
       \/ SetPointsAdmin(t) \/ SetPointsSet(t) \/ SetPointsSend(t)
       \/ ResetPointsAdmin(t) \/ ResetPointsSet(t) \/ ResetPointsDone(t)
       \/ RemoveUserAdmin(t) \/ RemoveUserSet(t) \/ RemoveUserSend(t)

SpecGuilds == InitStored /\ [][NextGuilds]_vars

\* The setup menus used in a guild that has no server_configs row yet, or a
\* row with some columns set; the callbacks overlap freely.
InitSetup ==
  /\ InitBot
  /\ config \in {NoConfig} \cup ConfigRows
  /\ NoSessions
  /\ user_points = [g \in GuildIds |-> [u \in Users |-> 0]]
  /\ legacy_points = EmptyDict
  /\ ticket_numbers = [g \in GuildIds |-> [c \in CounterCategories |-> 0]]

NextSetup ==
  \/ \E f \in ConfigFields : SetupSelect("B", f)
  \/ \E t \in BagToSet(tasks) :
       SetupRead(t) \/ SetupWrite(t) \/ SetupSend(t) \/ SetupFail(t)

SpecSetup == InitSetup /\ [][NextSetup]_vars

\* One close of a session with helper A on its roster, in a guild with a
\* transcript channel, while A and B press the join and leave buttons; no
\* call raises.
InitHeader ==
  /\ InitBot
  /\ config = [QuietConfig EXCEPT !.transcript_channel_id = TranscriptChannel]
  /\ OneSession(<<"A">>)
  /\ user_points = [g \in GuildIds |-> [u \in Users |-> 0]]
  /\ legacy_points = EmptyDict
  /\ ticket_numbers = [g \in GuildIds |-> [c \in CounterCategories |-> 0]]

NextHeader ==
  \/ \E a \in LiveActors : JoinClick(1, a)
  \/ \E a \in LiveActors : LeaveClick(1, a)
  \/ closeRoster[1] = <<>> /\ CloseClick(1, "B")
  \/ \E t \in BagToSet(tasks) :
       \/ JoinConfig(t) \/ JoinEdit(t) \/ LeaveEdit(t) \/ CloseProgress(t)

SpecHeader == InitHeader /\ [][NextHeader]_vars

\* `!add` typed by admin B about member A, and `!mypoints` typed by A, one
\* command after the other.
NextAdd ==
  \/ \E n \in Amounts : tasks = EmptyBag /\ AddCmd(ThisGuild, "B", "A", n)
  \/ tasks = EmptyBag /\ MyPointsCmd(ThisGuild, "A")
  \/ \E t \in BagToSet(tasks) :
       \/ AddAdmin(t) \/ AddBad(t) \/ AddGet(t) \/ AddPut(t) \/ AddTotal(t)
       \/ AddSend(t) \/ MyPointsGet(t) \/ MyPointsSend(t)

SpecAdd == InitStored /\ [][NextAdd]_vars

\* Member A has any of a few balances in the table and in the legacy dict;
\* the helper A and the admin B type `!remove`, `!add`, `!setpoints` and
\* `!removeuser` about A with any of the amounts, one command after the
\* other; any awaited call may raise.
InitRemovePoints ==
  /\ InitBot
  /\ config = QuietConfig
  /\ NoSessions
  /\ \E n \in 0..2 :
       user_points = [g \in GuildIds |-> [u \in Users |->
                        IF g = ThisGuild /\ u = "A" THEN n ELSE 0]]
  /\ legacy_points \in {EmptyDict, [u \in {"A"} |-> 1], StoredLegacy}
  /\ ticket_numbers = [g \in GuildIds |-> [c \in CounterCategories |-> 0]]

NextRemovePoints ==
  \/ \E a \in LiveActors, n \in Amounts :
       tasks = EmptyBag /\ RemoveCmdPoints(ThisGuild, a, "A", n)
  \/ \E a \in LiveActors, n \in Amounts :
       tasks = EmptyBag /\ AddCmd(ThisGuild, a, "A", n)
  \/ \E a \in LiveActors, n \in Amounts :
       tasks = EmptyBag /\ SetPointsCmd(ThisGuild, a, "A", n)
  \/ \E a \in LiveActors : tasks = EmptyBag /\ RemoveUserCmd(ThisGuild, a, "A")
  \/ \E t \in BagToSet(tasks) :
       \/ RemoveAdminPoints(t) \/ RemoveDeny(t) \/ RemoveBad(t) \/ RemoveGet(t)
       \/ RemoveSet(t) \/ RemoveSend(t) \/ RemoveFailPoints(t)
       \/ AddAdmin(t) \/ AddDeny(t) \/ AddBad(t) \/ AddGet(t) \/ AddPut(t)
       \/ AddTotal(t) \/ AddSend(t)
       \/ SetPointsAdmin(t) \/ SetPointsDeny(t) \/ SetPointsBad(t)
       \/ SetPointsSet(t) \/ SetPointsSend(t) \/ SetPointsFail(t)
       \/ RemoveUserAdmin(t) \/ RemoveUserDeny(t) \/ RemoveUserSet(t)
       \/ RemoveUserSend(t) \/ RemoveUserFail(t)

SpecRemovePoints == InitRemovePoints /\ [][NextRemovePoints]_vars

\* `!resetpoints` without a member and `!restartleaderboard`, typed by admin B
\* while balances are stored; the author types `confirm` before the wait
\* times out, and no call raises.
NextConfirmed ==
  \/ ResetPointsCmd(ThisGuild, "B", NoId)
  \/ RestartCmd(ThisGuild, "B")
  \/ \E g \in GuildIds : MyPointsCmd(g, "A")
  \/ \E t \in BagToSet(tasks) :
       \/ ResetPointsAdmin(t) \/ ResetPointsAsk(t) \/ ResetPointsConfirm(t)
       \/ RestartAdmin(t) \/ RestartAsk(t) \/ RestartConfirm(t)
       \/ MyPointsGet(t) \/ MyPointsSend(t)

SpecConfirmed == InitStored /\ [][NextConfirmed]_vars

\* `!mypoints`, `!add`, `!resetpoints` and `!restartleaderboard`, typed by the
\* helper A and the admin B; the commands overlap freely, the wait for
\* `confirm` ends either way, and any awaited call may raise.
LockedCommands == {"mypoints", "add", "resetpoints", "restartleaderboard"}

NextLocks ==
  \/ MyPointsCmd(ThisGuild, "A")
  \/ \E a \in LiveActors : AddCmd(ThisGuild, a, "A", 1)
  \/ \E m \in {"A", NoId} : ResetPointsCmd(ThisGuild, "B", m)
  \/ RestartCmd(ThisGuild, "B")
  \/ \E t \in BagToSet(tasks) :
       \/ MyPointsGet(t) \/ MyPointsSend(t) \/ MyPointsFail(t)
       \/ AddAdmin(t) \/ AddDeny(t) \/ AddGet(t) \/ AddPut(t) \/ AddTotal(t)
       \/ AddSend(t) \/ AddFail(t)
       \/ ResetPointsAdmin(t) \/ ResetPointsSet(t)
       \/ ResetPointsDone(t) \/ ResetPointsAsk(t) \/ ResetPointsTimeout(t)
       \/ ResetPointsTimedOut(t) \/ ResetPointsConfirm(t) \/ ResetPointsFail(t)
       \/ RestartAdmin(t) \/ RestartAsk(t)
       \/ RestartTimeout(t) \/ RestartTimedOut(t) \/ RestartConfirm(t)
       \/ RestartFail(t)

InitLocks == InitStored /\ legacy_points = StoredLegacy

SpecLocks == InitLocks /\ [][NextLocks]_vars

\* ---------------------------------------------------------------- claims
PointValueOf(s) == DictGet(DEFAULT_POINT_VALUES, category[s], 0)

\* C1: in every reachable state of a session, also when join callbacks
\* overlap, the roster is no longer than the session's slot capacity.
RosterWithinCapacity == \A s \in Sessions : Len(helpers[s]) <= slots[s]

\* C2: in every reachable state no helper appears twice in a roster, also
\* when the same actor presses Join twice and the callbacks overlap.
NoDuplicateHelpers ==
  \A s \in Sessions : Cardinality(Range(helpers[s])) = Len(helpers[s])

\* C3: once an admin's close has been accepted on a session, the roster does
\* not change any more for as long as the backing channel exists.
RosterFrozenWhileClosing ==
  [][\A s \in Sessions :
        (closeRoster[s] # <<>> /\ chan[s] = "open") => helpers'[s] = helpers[s]]_vars

\* C4: for one session each helper is credited at most once in total,
\* however many close callbacks run on it.
CreditedAtMostOnce ==
  \A s \in Sessions : \A u \in Users : credits[s][u] <= 1

\* C5: when the closes of two sessions have both finished, every user's
\* balance is the initial balance (0) plus every award written for the user.
NoCreditLost ==
  (InFlight = 0 /\ \A s \in Sessions : chan[s] = "deleted") =>
     \A u \in Users :
        user_points[ThisGuild][u] = credits[1][u] * PointValueOf(1)
                         + credits[2][u] * PointValueOf(2)

\* C6: when N calls of get_next_ticket_number for a category have returned
\* and none is pending, the values returned are exactly 1..N, each once.
ReturnedFor(c) == SelectSeq(returned, LAMBDA r : r.cat = c)

TicketNumbersExact ==
  \A c \in CounterCategories :
     (\A k \in BagToSet(calls) : k.cat # c) =>
        /\ {ReturnedFor(c)[j].num : j \in 1..Len(ReturnedFor(c))}
              = 1..Len(ReturnedFor(c))
        /\ \A i, j \in 1..Len(ReturnedFor(c)) :
              i # j => ReturnedFor(c)[i].num # ReturnedFor(c)[j].num

\* C7: when a session has closed, every helper in the roster at close time
\* has gained exactly the category's point value and everybody else nothing.
AwardOnClose ==
  \A s \in Sessions :
     (chan[s] = "deleted" /\ InFlight = 0 /\ closeRoster[s] # <<>>) =>
        \A u \in Users :
           user_points[ThisGuild][u] = IF u \in Range(closeRoster[s][1])
                            THEN PointValueOf(s) ELSE 0

\* C8: with join and leave callbacks running one after the other, after each
\* of them the roster size is the number of joins answered as accepted minus
\* the number of leaves answered as accepted, and at most the capacity.
RosterSizeIsNetAccepted ==
  \A s \in Sessions :
     InFlight = 0 => (Len(helpers[s]) = net[s] /\ Len(helpers[s]) <= slots[s])

\* C9: when an actor's join has completed (accepted, or turned away because
\* the actor is already a helper or the roster is full) and the same actor
\* presses Join again with nothing in between, the second join is rejected
\* at once and the roster stays as the first join left it.
SecondJoinRejected ==
  [][\A s \in Sessions : \A a \in Users :
        ( /\ resp \in {Resp(s, a, "join", "accepted"),
                       Resp(s, a, "join", "already"),
                       Resp(s, a, "join", "full")}
          /\ JoinClick(s, a) )
        => /\ resp'.outcome \in {"already", "full"}
           /\ resp'.to = a
           /\ helpers' = helpers
           /\ tasks' = tasks]_vars

\* C9 witness: two presses of Join by A, nothing failed, the second one was
\* answered "already in the helper list" and the roster holds A once.
SecondJoinRejectedWitness ==
  /\ clicks = 2 /\ fails = 0 /\ InFlight = 0
  /\ resp = Resp(1, "A", "join", "already")
  /\ net[1] = 1
  /\ helpers[1] = <<"A">>

\* C10 as stated: with a helper role configured, a join by an actor who does
\* not hold that role leaves the roster unchanged.
JoinNeedsConfiguredRole ==
  [][\A t \in BagToSet(tasks) :
        ( /\ JoinConfig(t)
          /\ config.present /\ config.helper_role_id # NoId
          /\ config.helper_role_id \notin UserRoles(t.actor) )
        => helpers' = helpers]_vars

\* C10 amended: with a helper role configured that still exists in the
\* guild, a join by an actor who does not hold it is rejected and leaves the
\* roster unchanged; and whoever is added to a roster holds the configured
\* helper role at that moment, unless none is configured or it no longer
\* exists.
RoleResolves ==
  config.present /\ config.helper_role_id # NoId
  /\ config.helper_role_id \in guildRoles

JoinNeedsResolvableRole ==
  [][/\ \A t \in BagToSet(tasks) :
          ( /\ JoinConfig(t)
            /\ RoleResolves
            /\ config.helper_role_id \notin UserRoles(t.actor) )
          => /\ helpers' = helpers
             /\ resp' = Resp(t.s, t.actor, "join", "norole")
     /\ \A s \in Sessions :
          Len(helpers'[s]) > Len(helpers[s]) =>
             (RoleResolves =>
                config.helper_role_id \in
                   UserRoles(helpers'[s][Len(helpers'[s])]))]_vars

\* C10 witness: C, who holds no role, was turned away for lack of the
\* helper role while the configured role existed.
JoinNeedsResolvableRoleWitness ==
  /\ resp = Resp(1, "C", "join", "norole")
  /\ RoleResolves
  /\ "C" \notin Range(helpers[1])

\* the list without its k-th entry
DropAt(seq, k) == SubSeq(seq, 1, k - 1) \o SubSeq(seq, k + 1, Len(seq))

RemoveStep(t) ==
  \/ RemoveAdmin(t) \/ RemoveMenu(t) \/ RemoveTimeout(t) \/ RemoveFail(t)
  \/ \E v \in Users : RemoveSelect(t, v)

\* C12: a press of Remove Helper by an actor who holds no admin role is
\* answered "only admins" with the roster unchanged and no selection list;
\* no step of a Remove Helper action changes a roster unless its actor holds
\* an admin role; and when an admin picks a target that is in the roster, one
\* entry of that target is taken out and every other entry stays in place.
RemoveOnlyByAdmin ==
  [][/\ \A s \in Sessions : \A a \in Users :
          RemoveClick(s, a) => helpers' = helpers
     /\ \A t \in BagToSet(tasks) :
          /\ (RemoveAdmin(t) /\ UserRoles(t.actor) \cap admin_roles = {})
                => /\ helpers' = helpers
                   /\ resp' = Resp(t.s, t.actor, "remove", "denied")
                   /\ tasks' = Finish(t)
          /\ (RemoveStep(t) /\ helpers' # helpers)
                => UserRoles(t.actor) \cap admin_roles # {}
          /\ \A v \in Users :
                (RemoveSelect(t, v) /\ v \in Range(helpers[t.s]))
                  => /\ \E k \in 1..Len(helpers[t.s]) :
                          /\ helpers[t.s][k] = v
                          /\ helpers'[t.s] = DropAt(helpers[t.s], k)
                     /\ \A s2 \in Sessions \ {t.s} :
                          helpers'[s2] = helpers[s2]]_vars

\* C12 witness: A and C joined, admin B opened the selection list and picked
\* A; A is out of the roster and C is still in it.
RemoveOnlyByAdminWitness ==
  /\ resp = RespAbout(1, "B", "remove", "raised", "A")
  /\ helpers[1] = <<"C">>
  /\ net[1] = 2

\* C13: when the target an admin picks is not in the roster at the moment
\* the pick is carried out, the admin is told "helper not found" and no
\* roster and no display changes.
RemoveAbsentNotFound ==
  [][\A t \in BagToSet(tasks) : \A v \in Users :
        (RemoveSelect(t, v) /\ v \notin Range(helpers[t.s]))
          => /\ resp' = RespAbout(t.s, t.actor, "remove", "notfound", v)
             /\ helpers' = helpers
             /\ display' = display]_vars

\* C13 witness: A joined, admin B opened the selection list, A left, and
\* B's pick of A was answered "helper not found".
RemoveAbsentNotFoundWitness ==
  /\ resp = RespAbout(1, "B", "remove", "notfound", "A")
  /\ net[1] = 0
  /\ clicks = 3
  /\ helpers[1] = <<>>

\* C14: when `!removehelper user` has told a ticket, or its admin, that the
\* user was removed from the ticket, the user is not in the roster of that
\* ticket's session.
RemovedByCommandIsOut ==
  \A s \in Sessions :
     (resp.kind = "cmd" /\ resp.outcome \in {"notified", "removed"} /\ resp.s = s)
        => resp.tgt \notin Range(helpers[s])

\* C15: a press of Close Ticket changes nothing by itself, and when the
\* actor holds no admin role the callback ends with the answer "only admins
\* can close tickets": no transcript is delivered, no balance and no table
\* changes, roster and display stay and the channel is not deleted.
CloseDeniedNoChange ==
  [][/\ \A s \in Sessions : \A a \in Users :
          CloseClick(s, a) =>
             <<sessionVars, dbVars, transcripts, credits>>'
                = <<sessionVars, dbVars, transcripts, credits>>
     /\ \A t \in BagToSet(tasks) :
          (CloseAdmin(t) /\ UserRoles(t.actor) \cap admin_roles = {})
            => /\ resp' = Resp(t.s, t.actor, "close", "denied")
               /\ tasks' = Finish(t)
               /\ <<sessionVars, dbVars, transcripts, credits, closeRoster>>'
                     = <<sessionVars, dbVars, transcripts, credits, closeRoster>>]_vars

\* C15 witness: C, who holds no admin role, pressed Close Ticket on session
\* 1 and was turned away; the session is as it was created.
CloseDeniedNoChangeWitness ==
  /\ resp = Resp(1, "C", "close", "denied")
  /\ chan[1] = "open"
  /\ helpers[1] = <<"A", "C">>
  /\ transcripts[1] = {}
  /\ \A u \in Users : user_points[ThisGuild][u] = 0
  /\ InFlight = 0

\* C16: while a session is open, a close by its owner is accepted, whether
\* or not the owner holds an admin role.
OwnerMayClose ==
  [][\A t \in BagToSet(tasks) :
        (CloseAdmin(t) /\ t.actor = owner[t.s] /\ chan[t.s] = "open")
          => resp' = Resp(t.s, t.actor, "close", "closing")]_vars

\* C17: whenever a close deletes the backing channel, the transcript has been
\* delivered (if a destination is configured), every helper in the roster
\* has been credited for the session, and no accepted close of the session
\* still has an award to write.
DeleteAfterAwards ==
  [][\A t \in BagToSet(tasks) :
        CloseDelete(t) =>
           /\ TranscriptConfigured => transcripts[t.s] # {}
           /\ \A u \in Range(helpers[t.s]) : credits[t.s][u] >= 1
           /\ ~ \E t2 \in BagToSet(tasks) :
                  /\ t2.kind = "close" /\ t2.s = t.s
                  /\ t2.pc \in {"cfg", "send", "pv", "get", "put"}]_vars

\* C18: as long as an accepted close of a session is running, the session's
\* channel is eventually deleted or a call of a close of that session raises,
\* whatever join and leave callbacks run in between.
CloseCompletes ==
  \A s \in Sessions :
     (\E t \in BagToSet(tasks) : t.kind = "close" /\ t.s = s /\ t.pc # "admin")
       ~> \/ chan[s] = "deleted"
          \/ resp = Resp(s, resp.to, "close", "error")

\* C18 witness: a close of session 1 was accepted, A joined, nothing raised,
\* A was credited and the channel is deleted.
CloseCompletesWitness ==
  /\ chan[1] = "deleted"
  /\ closeRoster[1] # <<>>
  /\ fails = 0
  /\ net[1] = 1
  /\ credits[1]["A"] = 1

\* C19: when the requester holds the configured blocked role, the create
\* is answered "not allowed to create tickets" and ends there: no channel and
\* no session is produced and no ticket counter changes.
BlockedCreateRejected ==
  [][\A t \in BagToSet(tasks) :
        ( /\ CreateConfig(t)
          /\ config.present
          /\ config.blocked_role_id # NoId
          /\ config.blocked_role_id \in UserRoles(t.actor) )
        => /\ resp' = Resp(0, t.actor, "create", "blocked")
           /\ tasks' = Finish(t)
           /\ <<sessionVars, counterVars>>' = <<sessionVars, counterVars>>]_vars

\* C19 witness: C, who holds the blocked role, was turned away; there is no
\* channel and every counter is where it started.
BlockedCreateRejectedWitness ==
  /\ resp = Resp(0, "C", "create", "blocked")
  /\ \A s \in Sessions : chan[s] = "none"
  /\ \A c \in DOMAIN ticket_numbers[ThisGuild] : ticket_numbers[ThisGuild][c] = 0
  /\ InFlight = 0

\* C20: a create in a guild without a server configuration, or whose ticket
\* category is unset or does not resolve, changes no session, no channel, no
\* ticket counter and no row of the configuration, catalog and rule tables.
CreateAbortNoPartialState ==
  [][\A t \in BagToSet(tasks) :
        ( /\ CreateConfig(t) \/ CreateAdmin(t)
          /\ \/ ~config.present
             \/ config.ticket_category_id \notin guildChannels )
        => <<sessionVars, counterVars, config, point_values, helper_slots,
             custom_rules>>'
              = <<sessionVars, counterVars, config, point_values, helper_slots,
                  custom_rules>>]_vars

\* C21: in a guild with no stored catalog no ticket action stores one: the
\* point_values and helper_slots tables of the guild stay empty.
CatalogNeverPersisted ==
  DOMAIN point_values = {} /\ DOMAIN helper_slots = {}

\* C22: in a guild with no stored catalog a ticket of a built-in category is
\* created with the built-in capacity and shows the built-in point value:
\* capacity 6 for "Grim Express" and "7-Man Ultra Daily Express" and 3 for the
\* others; 10 points for "Grim Express", 8 for "Ultra Speaker Express".
FallbackCatalogResolves ==
  \A s \in Sessions :
    (chan[s] = "open" /\ DOMAIN point_values = {} /\ DOMAIN helper_slots = {})
    => /\ category[s] \in AllCategories
       /\ slots[s] = (IF category[s] \in {"Grim Express",
                                          "7-Man Ultra Daily Express"}
                      THEN 6 ELSE 3)
       /\ Len(display[s]) = slots[s]
       /\ reward[s] = DEFAULT_POINT_VALUES[category[s]]
       /\ (category[s] = "Grim Express" => reward[s] = 10)
       /\ (category[s] = "Ultra Speaker Express" => reward[s] = 8)

FallbackCatalogResolvesWitness ==
  \E s1, s2 \in Sessions :
    /\ chan[s1] = "open" /\ category[s1] = "Grim Express"
    /\ slots[s1] = 6 /\ reward[s1] = 10
    /\ chan[s2] = "open" /\ category[s2] = "Ultra Speaker Express"
    /\ slots[s2] = 3 /\ reward[s2] = 8
    /\ DOMAIN point_values = {} /\ DOMAIN helper_slots = {}


\* the capacity the catalog holds for the session's category now
CatalogSlots(s) == DictGet(get_helper_slots, category[s], DEFAULT_SLOTS)

\* C23: the capacity of an open session is the one it was created with,
\* whatever is written to the helper-slot catalog meanwhile: no step changes
\* it, a join is answered "full" only when the roster has reached it, and a
\* join passes the capacity check only when the roster is below it.
SlotsFixedAtCreation ==
  [][\A s \in Sessions :
       chan[s] = "open" =>
         /\ slots'[s] = slots[s]
         /\ resp'.s = s /\ resp'.kind = "join" /\ resp'.outcome = "full"
              => Len(helpers[s]) >= slots[s]
         /\ ( /\ BagCardinality(tasks') > BagCardinality(tasks)
              /\ \E t \in BagToSet(tasks') :
                   t.kind = "join" /\ t.s = s /\ t.pc = "cfg" )
              => Len(helpers[s]) < slots[s]
    ]_vars

\* the catalog was rewritten while the session was open, and a join is
\* turned away at the capacity of creation, below the catalog's
SlotsFixedAtCreationWitness ==
  \E s \in Sessions :
    /\ chan[s] = "open"
    /\ resp.s = s /\ resp.kind = "join" /\ resp.outcome = "full"
    /\ Len(helpers[s]) = slots[s]
    /\ CatalogSlots(s) > slots[s]


\* C24: the amount a close credits to the helpers of a session is the point
\* value the session's category had when the session was created (the value
\* its ticket message shows), whatever is written to the point values
\* meanwhile.
AwardIsValueAtCreation ==
  \A t \in BagToSet(tasks) :
    (t.kind = "close" /\ t.pc \in {"get", "put"}) => t.pts = reward[t.s]


\* C25: in a guild without a transcript destination a close delivers no
\* transcript; when its get_server_config returns without raising it goes on
\* to the awards without an error answer; and once it has got there, the
\* channel is eventually deleted with every helper of the roster credited,
\* unless a call of a close of that session raises.
CloseWithoutTranscript ==
  /\ [](\A s \in Sessions : transcripts[s] = {})
  /\ [][\A t \in BagToSet(tasks) :
          ( /\ t.kind = "close" /\ t.pc = "cfg"
            /\ CopiesIn(t, tasks') < CopiesIn(t, tasks)
            /\ fails' = fails )
          => /\ resp' = NoResp
             /\ CopiesIn([t EXCEPT !.pc = "pv", !.hdr = <<>>, !.emb = <<>>], tasks') >
                  CopiesIn([t EXCEPT !.pc = "pv", !.hdr = <<>>, !.emb = <<>>], tasks)]_vars
  /\ \A s \in Sessions :
       (\E t \in BagToSet(tasks) : t.kind = "close" /\ t.s = s /\ t.pc = "pv")
         ~> \/ /\ chan[s] = "deleted"
               /\ \A u \in Range(helpers[s]) : credits[s][u] >= 1
            \/ resp = Resp(s, resp.to, "close", "error")

\* C25 witness: session 1 was closed without a destination, nothing raised,
\* no transcript was delivered, both helpers were credited and the channel
\* is deleted.
CloseWithoutTranscriptWitness ==
  /\ ~ TranscriptConfigured
  /\ chan[1] = "deleted"
  /\ fails = 0
  /\ transcripts[1] = {}
  /\ \A u \in Range(helpers[1]) : credits[1][u] >= 1
  /\ Len(helpers[1]) = 2


\* the k most recent of n messages, oldest first
MostRecent(n, k) ==
  [i \in 1..(IF n < k THEN n ELSE k) |-> (IF n < k THEN 0 ELSE n - k) + i]

\* C26: the transcript body a close has built holds the 100 most recent
\* messages of the channel, oldest first (all of them when the channel holds
\* at most 100).
TranscriptHoldsMostRecent ==
  \A t \in BagToSet(tasks) :
    (t.kind = "close" /\ t.pc \in {"cfg", "send"})
      => t.emb = MostRecent(messages[t.s], 100)


\* C27: whenever no join, leave or remove is in progress on an open session,
\* the "Helpers" field has one line per slot, every helper of the roster is
\* on exactly one line, nobody else is on any line (the other lines read
\* "[Empty]").
DisplayMatchesRoster ==
  \A s \in Sessions :
    ( /\ chan[s] = "open"
      /\ ~ \E t \in BagToSet(tasks) :
             \/ t.kind \in {"join", "leave", "remove"} /\ t.s = s
             \/ t.kind = "cmd" )
    => /\ Len(display[s]) = slots[s]
       /\ \A i \in DOMAIN display[s] : display[s][i] \in Users \cup {Empty}
       /\ \A u \in Users :
            Cardinality({i \in DOMAIN display[s] : display[s][i] = u})
              = (IF u \in Range(helpers[s]) THEN 1 ELSE 0)


\* C28: a button press or command that is not carried out is answered: when
\* a press or command arrives and no callback is started for it, the step
\* sends a response to its actor.
RejectedIsAnswered ==
  [][(clicks' = clicks + 1 /\ BagCardinality(tasks') = BagCardinality(tasks))
       => resp' # NoResp]_vars


\* C29: when a join has just been answered with the failure message, the
\* actor is not on the session's roster.
FailedJoinNotCommitted ==
  (resp.kind = "join" /\ resp.outcome = "error")
    => resp.to \notin Range(helpers[resp.s])


\* C30: the ticket counter of a category is set back to zero only in a state
\* in which no ticket channel of that category exists.
ResetOnlyWithoutTickets ==
  [][\A c \in DOMAIN ticket_numbers[ThisGuild] :
       (ticket_numbers[ThisGuild][c] # 0 /\ ticket_numbers'[ThisGuild][c] = 0)
         => ~ \E s \in Sessions :
                chan[s] \in {"created", "open"} /\ chanName[s] = c]_vars


\* C31: a call of get_next_ticket_number that returns for a counter standing
\* at 0, which only reset_ticket_number leaves behind here, returns 1; and a
\* step that resets a counter leaves the counter of every other category and
\* of every other guild as it was.
ResetThenOne ==
  [][/\ \A g \in GuildIds, c \in CounterCategories :
          ( /\ ticket_numbers[g][c] = 0
            /\ Len(returned') = Len(returned) + 1
            /\ returned'[Len(returned')].g = g
            /\ returned'[Len(returned')].cat = c )
          => returned'[Len(returned')].num = 1
     /\ \A g \in GuildIds, c \in CounterCategories :
          (ticket_numbers[g][c] # 0 /\ ticket_numbers'[g][c] = 0)
          => \A h \in GuildIds, d \in CounterCategories :
               (h # g \/ d # c) => ticket_numbers'[h][d] = ticket_numbers[h][d]
    ]_vars

\* a counter that stood at 4 was reset and the next call on it returned 1,
\* while the other counters still stand where they started
ResetThenOneWitness ==
  /\ returned # <<>>
  /\ returned[Len(returned)] = [g |-> ThisGuild, cat |-> "Grim Express", num |-> 1]
  /\ ticket_numbers[ThisGuild]["Grim Express"] = 1
  /\ ticket_numbers[ThisGuild]["Daily Temple Express"] = 4
  /\ \A c \in CounterCategories : ticket_numbers[OtherGuild][c] = 4


\* C32: every stored balance of a member in a guild is a non-negative
\* integer, whatever awards and `!add`, `!remove`, `!setpoints`,
\* `!resetpoints` and `!removeuser` commands have run or are running.
BalancesNonNegative ==
  \A g \in GuildIds, u \in Users : user_points[g][u] \in Nat

\* a `!remove` of more than the member had has been answered after the close
\* credited the member
BalancesNonNegativeWitness ==
  /\ resp.kind = "remove" /\ resp.outcome = "removed"
  /\ credits[1]["A"] >= 1
  /\ user_points[ThisGuild]["A"] = 0
  /\ \E t \in BagToSet(tasks) : t.kind = "close"


\* C33: the steps a `!resetpoints` or `!restartleaderboard` takes once its
\* wait for `confirm` has timed out (the handler of the timeout, and the
\* message it sends) change no balance of table user_points and no legacy
\* balance; and when the command has ended, with the message sent or with
\* the send raising, the lock of the command is free, so that the command
\* can be invoked again.
TimeoutChangesNothing ==
  [][\A t \in BagToSet(tasks) :
       ( /\ t.kind \in {"resetpoints", "restartleaderboard"}
         /\ \/ t.pc = "wait" /\ tasks' = Replace(t, [t EXCEPT !.pc = "timedout"])
            \/ t.pc = "timedout" /\ tasks' = Finish(t) )
       => /\ user_points' = user_points
          /\ legacy_points' = legacy_points
          /\ (t.pc = "timedout") => t.kind \notin command_locks'
    ]_vars

\* the timeout of a `!restartleaderboard` has been reported while balances
\* are stored, and the lock is free
TimeoutChangesNothingWitness ==
  /\ resp.kind = "restartleaderboard" /\ resp.outcome = "timedout"
  /\ user_points = StoredPoints
  /\ legacy_points = StoredLegacy
  /\ "restartleaderboard" \notin command_locks
  /\ clicks >= 2


\* the commands of guild g that are in progress
CommandsOf(g) == {t \in BagToSet(tasks) : t.g = g}

\* C34: a step in which no command of a guild starts, goes on or ends leaves
\* the total `!mypoints` reports for every member of that guild as it was;
\* and an invocation in a guild is dropped only while a command of the same
\* name is in progress in that guild.
ServersPartitioned ==
  [][/\ \A g \in GuildIds :
          (CommandsOf(g)' = CommandsOf(g))
          => \A u \in Users : total_points(g, u)' = total_points(g, u)
     /\ \A e \in events' \ events :
          e.ev = "dropped" => \E t \in CommandsOf(e.g) : t.kind = e.kind
    ]_vars


\* C35: when the write of an update_server_config called with one column
\* ends without an I/O error, the guild has a configuration row, the column
\* holds the value given and every other column holds what it held before,
\* also when the call overlaps with another one on a configuration that did
\* not exist yet.
UpdateStoresItsField ==
  [][\A t \in BagToSet(tasks) :
       ( /\ t.kind = "setup" /\ t.pc = "write"
         /\ CopiesIn(t, tasks') < CopiesIn(t, tasks)
         /\ fails' = fails )
       => /\ config'.present
          /\ config'[t.tgt] = SelectedValue(t.tgt)
          /\ \A f \in ConfigFields \ {t.tgt} : config'[f] = config[f]
    ]_vars


\* C36: when the one close of the session has completed, the helpers its
\* transcript header lists are exactly the helpers it has credited.
HeaderListsTheCredited ==
  chan[1] = "deleted"
    => \A hdr \in transcripts[1] :
         Range(hdr) = {u \in Users : credits[1][u] >= 1}


\* C37: when an `!add member amount` is about to send its "New Total", that
\* total and the total `!mypoints` reports for the member are the total the
\* member had when the command arrived plus the amount.
AddRaisesTotalByAmount ==
  \A t \in BagToSet(tasks) :
    (t.kind = "add" /\ t.pc = "send")
      => /\ t.cur = t.before + t.amount
         /\ total_points(t.g, t.tgt) = t.before + t.amount


\* C38: when a `!remove member amount` is about to send its "New Total",
\* that total is the sum of the member's two balances, it is the total the
\* member had when the command arrived minus the amount, or 0 when that is
\* negative, and neither the balance in the table nor the legacy balance is
\* negative.
RemoveLowersTotalToFloor ==
  \A t \in BagToSet(tasks) :
    (t.kind = "remove" /\ t.pc = "send")
      => /\ t.cur = total_points(t.g, t.tgt)
         /\ t.cur = (IF t.before - t.amount > 0 THEN t.before - t.amount ELSE 0)
         /\ user_points[t.g][t.tgt] >= 0
         /\ DictGet(legacy_points, t.tgt, 0) >= 0

\* a `!remove A 2` has used up A's balance of 1 in the table and taken the
\* rest from the legacy balance of 3
RemoveLowersTotalToFloorWitness ==
  \E t \in BagToSet(tasks) :
    /\ t.kind = "remove" /\ t.pc = "send"
    /\ t.before = 4 /\ t.amount = 2 /\ t.cur = 2
    /\ user_points[t.g][t.tgt] = 0
    /\ legacy_points = [u \in {"A"} |-> 2]


\* C39: when the author of a `!resetpoints` without a member or of a
\* `!restartleaderboard` has typed `confirm` in time, the step that receives
\* it leaves every balance of the guild at 0, and the command answers that
\* the points were reset or is about to.
ConfirmResetsAll ==
  [][\A t \in BagToSet(tasks) :
       ( /\ t.kind \in {"resetpoints", "restartleaderboard"}
         /\ t.pc = "wait"
         /\ CopiesIn(t, tasks') < CopiesIn(t, tasks) )
       => /\ \A u \in Users : user_points'[t.g][u] = 0
          /\ \/ resp'.outcome = "reset"
             \/ \E u \in BagToSet(tasks') : u.kind = t.kind /\ u.pc = "ok"
    ]_vars


\* the number of invocations of a command that are in progress
InProgress(name) ==
  BagCardinality([t \in {u \in BagToSet(tasks) : u.kind = name} |->
                    CopiesIn(t, tasks)])

\* C40: of every command guarded by command_lock at most one invocation is
\* in progress, and the lock of the command is held exactly while one is:
\* it is free whenever none is in progress, also after an invocation has
\* ended with an exception or with the timeout of its confirmation.
OneInvocationPerLock ==
  \A name \in LockedCommands :
    /\ InProgress(name) <= 1
    /\ (name \in command_locks) <=> (InProgress(name) = 1)

\* a `!restartleaderboard` has timed out and another command has ended with
\* an exception; nothing is in progress and no lock is held
OneInvocationPerLockWitness ==
  /\ resp.kind = "restartleaderboard" /\ resp.outcome = "timedout"
  /\ \E e \in events : e.ev = "raised" /\ e.kind = "add"
  /\ tasks = EmptyBag
  /\ command_locks = {}


====
